---------------------------- MODULE Spec2Model ----------------------------
(***************************************************************************)
(* Model of the node registry (mesh_device.c), the topology test and its   *)
(* response handler (mesh_none.c) of ESP8266_Mesh.                         *)
(*                                                                         *)
(* MAC addresses are small naturals; 0 is the all-zero address, which is   *)
(* also what zero-initialised memory (os_zalloc, os_memset) holds.  An     *)
(* array argument (pointer + count) is a sequence; a NULL pointer argument *)
(* is the flag "null".  Array indices are 1-based here, 0-based in C.      *)
(* The system clock (system_get_time, 32-bit microseconds) is the variable *)
(* now; a handler runs at one reading of the clock.  A 32-bit time is kept *)
(* as two 16-bit halves [hi, lo], because the model checker's integers end *)
(* below 2^32; the arithmetic on them is arithmetic modulo 2^32.           *)
(***************************************************************************)
EXTENDS Integers, Sequences, FiniteSets, TLC

VARIABLES
  node_list,        \* mesh_device.c: static struct mesh_device_list_type *node_list
  topology_timer,   \* mesh_none.c: static os_timer_t *topology_timer ("null" / "armed")
  esp_mesh_conn,    \* esp_mesh.c: struct espconn *esp_mesh_conn (TRUE = allocated)
  is_root,          \* espconn_mesh_is_root(): the device is the root of the mesh
  sub_dev_mac,      \* address buffer of espconn_mesh_get_node_info ("null" / "held")
  now,              \* system_get_time(): uint32 microseconds, as [hi, lo]
  ticks,            \* number of clock advances so far (bounds the model)
  status,           \* "run", "hang" (stuck in a loop) or "fault" (NULL dereference)
  last,             \* history: the observed operation, its arguments, result and states before
  esp_mesh_enable_attempt_count,  \* esp_mesh.c: static uint8_t
  led_blink_timer,                \* esp_mesh.c: os_timer_t * ("null" / "idle" / "armed")
  esp_mesh_conn_timeout_wdt,      \* esp_mesh.c: os_timer_t * ("null" / "idle" / "armed")
  mode,             \* button-driven esp_mesh.c: static enum op_mode mode
  mesh,             \* the mesh library and ESP-TOUCH as the callbacks see them
  armed_timers,     \* heap: os_timer_t objects armed with mesh_topology_test
  topology_stopped  \* history: mesh_topology_disable ran and mesh_topology_init has not since

\* The variables of esp_mesh.c
device ==
  <<esp_mesh_enable_attempt_count, led_blink_timer, esp_mesh_conn_timeout_wdt, mode, mesh>>

\* What the start and the stop of the topology test keep besides topology_timer
engine == <<armed_timers, topology_stopped>>

vars ==
  <<node_list, topology_timer, esp_mesh_conn, is_root, sub_dev_mac, now, ticks,
    status, last, device, engine>>

----------------------------------------------------------------------------
(* Bounds of the model *)

MaxTicks == 2       \* clock advances per behaviour
MaxList == 3        \* length of an address array passed to a registry operation
MaxOpts == 2        \* occurrences of the topology-response option in one message
MaxResp == 2        \* addresses carried by one message or one node-info report
MaxAllocs == 2      \* allocation calls of one handler that may fail

(* Program constants *)

SUB_NODE_TIMEOUT_THRESHOLD == 30000
UsPerMs == 1000
TimeBits == 32
MESH_ENABLE_ATTEMPTS_LIMIT == 3

\* uint32 values as two halves of TimeBits / 2 bits
Limb == 2 ^ (TimeBits \div 2)
FromInt(n) == [hi |-> n \div Limb, lo |-> n % Limb]
Zero32 == FromInt(0)

\* (a + b) modulo 2^32
Add32(a, b) ==
  LET lo == a.lo + b.lo
  IN [hi |-> (a.hi + b.hi + lo \div Limb) % Limb, lo |-> lo % Limb]

\* (a - b) modulo 2^32
Sub32(a, b) ==
  LET borrow == IF a.lo < b.lo THEN 1 ELSE 0
  IN [hi |-> (a.hi - b.hi - borrow + Limb) % Limb, lo |-> (a.lo - b.lo + Limb) % Limb]

\* a / d for a 32-bit a and a divisor d below 2^15 (long division by halves)
Div32(a, d) == (a.hi \div d) * Limb + (((a.hi % d) * Limb + a.lo) \div d)

MAC == {1, 2, 3}    \* the link-layer addresses of the model
ZeroMac == 0

\* Clock readings.  The clock advances in turn by the largest age that is
\* still at the threshold (30000 ms and 999 us) and by one microsecond, so
\* that ages of 30000 ms and of 30001 ms both occur, and it starts so that it
\* wraps around with the second advance.
KeptAge == SUB_NODE_TIMEOUT_THRESHOLD * UsPerMs + (UsPerMs - 1)
Delta(n) == IF n % 2 = 0 THEN FromInt(KeptAge) ELSE FromInt(1)
StartTime == Sub32(Zero32, FromInt(KeptAge + 1))

----------------------------------------------------------------------------
(* Data *)

ZeroNode == [mac |-> ZeroMac, ts |-> Zero32]

\* node_list == NULL
NullList == [alloc |-> FALSE, entries_count |-> 0, root |-> ZeroNode, list |-> <<>>]

\* *node_list after os_zalloc / os_memset(node_list, 0, ...); list = <<>> is list == NULL
ZeroList == [alloc |-> TRUE, entries_count |-> 0, root |-> ZeroNode, list |-> <<>>]

Zeros(n) == [i \in 1..n |-> ZeroNode]

Min(a, b) == IF a < b THEN a ELSE b

\* The entries of the buffer that count as registered sub-nodes: list[0..entries_count-2]
Members(nl) ==
  IF nl.entries_count > 1
    THEN SubSeq(nl.list, 1, Min(nl.entries_count - 1, Len(nl.list)))
    ELSE <<>>

MemberMacs(nl) == [i \in 1..Len(Members(nl)) |-> Members(nl)[i].mac]

HasRoot(nl) == nl.alloc /\ nl.entries_count > 0

\* The n-th allocation call of a handler succeeds unless n is in the set F
AllocOk(F, n) == n \notin F

----------------------------------------------------------------------------
(* mesh_device.c *)

mesh_device_list_init(nl, ok) ==
  IF ~nl.alloc /\ ok THEN ZeroList ELSE nl

\* Mutant: the header is cleared but the member storage is kept
ReleaseKeepsList(nl) ==
  IF nl.alloc THEN [ZeroList EXCEPT !.list = nl.list] ELSE nl

mesh_device_list_release(nl) ==
  IF nl.alloc THEN ZeroList ELSE nl

\* Mutant: the search looks at the sub-nodes only and forgets the root
SearchMembersOnly(nl, node) ==
  /\ nl.alloc
  /\ nl.entries_count > 0
  /\ \E idx \in 1..(nl.entries_count - 1) : nl.list[idx].mac = node

\* node is a MAC; the NULL check of the argument is made by the callers here
mesh_device_list_search(nl, node) ==
  /\ nl.alloc
  /\ nl.entries_count > 0
  /\ \/ nl.root.mac = node
     \/ \E idx \in 1..(nl.entries_count - 1) : nl.list[idx].mac = node

\* [nodes, count]: the view handed out; view = FALSE is *nodes == NULL
mesh_device_list_get(nl) ==
  IF ~nl.alloc THEN [ret |-> FALSE, view |-> FALSE, count |-> 0]
  ELSE IF nl.entries_count <= 1 \/ nl.list = <<>>
    THEN [ret |-> TRUE, view |-> FALSE, count |-> 0]
    ELSE [ret |-> TRUE, view |-> TRUE, count |-> nl.entries_count - 1]

\* Result of a registry operation: the registry afterwards, the return value,
\* the number k of allocation calls made so far and how the call ended
Res(nl, ret, k, st) == [nl |-> nl, ret |-> ret, k |-> k, st |-> st]

\* Mutant: a root switch overwrites the root address and keeps the members
RootSetKeepsMembers(nl, null, root, k, F) ==
  IF null THEN Res(nl, FALSE, k, "run")
  ELSE
    LET k1 == IF nl.alloc THEN k ELSE k + 1
        n1 == IF nl.alloc THEN nl ELSE mesh_device_list_init(nl, AllocOk(F, k + 1))
    IN IF ~n1.alloc THEN Res(n1, FALSE, k1, "fault")
       ELSE IF n1.entries_count <= 0
         THEN Res([mesh_device_list_release(n1) EXCEPT !.root.mac = root, !.entries_count = 1],
                  TRUE, k1, "run")
       ELSE Res([n1 EXCEPT !.root.mac = root], TRUE, k1, "run")

\* Mutant: the registry is reset on every call, also when the address given
\* is the current root
RootSetAlwaysResets(nl, null, root, k, F) ==
  IF null THEN Res(nl, FALSE, k, "run")
  ELSE
    LET k1 == IF nl.alloc THEN k ELSE k + 1
        n1 == IF nl.alloc THEN nl ELSE mesh_device_list_init(nl, AllocOk(F, k + 1))
    IN IF ~n1.alloc THEN Res(n1, FALSE, k1, "fault")
       ELSE Res([mesh_device_list_release(n1) EXCEPT !.root.mac = root, !.entries_count = 1],
                TRUE, k1, "run")

mesh_device_root_set(nl, null, root, k, F) ==
  IF null THEN Res(nl, FALSE, k, "run")
  ELSE
    LET k1 == IF nl.alloc THEN k ELSE k + 1
        n1 == IF nl.alloc THEN nl ELSE mesh_device_list_init(nl, AllocOk(F, k + 1))
    IN IF ~n1.alloc THEN Res(n1, FALSE, k1, "fault")   \* node_list->entries_count with node_list == NULL
       ELSE IF n1.entries_count <= 0 \/ n1.root.mac # root
         THEN Res([mesh_device_list_release(n1) EXCEPT !.root.mac = root, !.entries_count = 1],
                  TRUE, k1, "run")
         ELSE Res(n1, TRUE, k1, "run")

mesh_device_root_get(nl) ==
  IF nl.alloc /\ nl.entries_count > 0
    THEN [ret |-> TRUE, root |-> nl.root]
    ELSE [ret |-> FALSE, root |-> ZeroNode]

\* Index of the first registered sub-node with the given address, 0 if none
FirstIdx(nl, node) ==
  LET S == {idx \in 1..(nl.entries_count - 1) : nl.list[idx].mac = node}
  IN IF S = {} THEN 0 ELSE CHOOSE idx \in S : \A j \in S : idx <= j

\* Mutant: the loop ends at the first input address that is not registered
RECURSIVE UpdateLoopStopsAtAbsent(_, _, _, _)
UpdateLoopStopsAtAbsent(nl, nodes, i, t) ==
  IF i > Len(nodes) THEN nl
  ELSE IF ~mesh_device_list_search(nl, nodes[i]) THEN nl
  ELSE
    LET n1 == IF nl.root.mac = nodes[i] THEN [nl EXCEPT !.root.ts = t] ELSE nl
        idx == FirstIdx(n1, nodes[i])
        n2 == IF idx > 0 THEN [n1 EXCEPT !.list[idx].ts = t] ELSE n1
    IN UpdateLoopStopsAtAbsent(n2, nodes, i + 1, t)

\* The while loop of mesh_device_update_timestamp
RECURSIVE UpdateLoop(_, _, _, _)
UpdateLoop(nl, nodes, i, t) ==
  IF i > Len(nodes) THEN nl
  ELSE IF ~mesh_device_list_search(nl, nodes[i]) THEN UpdateLoop(nl, nodes, i + 1, t)
  ELSE
    LET n1 == IF nl.root.mac = nodes[i] THEN [nl EXCEPT !.root.ts = t] ELSE nl
        idx == FirstIdx(n1, nodes[i])
        n2 == IF idx > 0 THEN [n1 EXCEPT !.list[idx].ts = t] ELSE n1
    IN UpdateLoop(n2, nodes, i + 1, t)

mesh_device_update_timestamp(nl, null, nodes, t) ==
  IF null THEN Res(nl, FALSE, 0, "run")
  ELSE IF ~nl.alloc THEN Res(nl, FALSE, 0, "run")
  ELSE IF nl.entries_count <= 0 THEN Res(nl, FALSE, 0, "run")
  ELSE Res(UpdateLoop(nl, nodes, 1, t), TRUE, 0, "run")

\* Mutant: the second loop walks the input from its end to its start
RECURSIVE AddLoopBackwards(_, _, _)
AddLoopBackwards(nl, nodes, idx) ==
  IF idx > Len(nodes) THEN nl
  ELSE
    LET node == nodes[Len(nodes) + 1 - idx]
    IN IF ~mesh_device_list_search(nl, node)
         THEN AddLoopBackwards([nl EXCEPT !.list[nl.entries_count].mac = node,
                                          !.entries_count = nl.entries_count + 1],
                               nodes, idx + 1)
         ELSE AddLoopBackwards(nl, nodes, idx + 1)

\* The second loop of mesh_device_add: each address the list does not hold yet
\* is copied behind the last entry
RECURSIVE AddLoop(_, _, _)
AddLoop(nl, nodes, idx) ==
  IF idx > Len(nodes) THEN nl
  ELSE IF ~mesh_device_list_search(nl, nodes[idx])
    THEN AddLoop([nl EXCEPT !.list[nl.entries_count].mac = nodes[idx],
                            !.entries_count = nl.entries_count + 1], nodes, idx + 1)
    ELSE AddLoop(nl, nodes, idx + 1)

\* The body of mesh_device_add behind its argument checks
AddNodes(nl, nodes, k, F) ==
  LET new_nodes_count ==
        Cardinality({i \in 1..Len(nodes) : ~mesh_device_list_search(nl, nodes[i])})
      size == nl.entries_count - 1 + new_nodes_count
      buf == [i \in 1..size |->
                IF nl.list # <<>> /\ nl.entries_count > 1 /\ i <= nl.entries_count - 1
                  THEN nl.list[i] ELSE ZeroNode]
  IN IF new_nodes_count = 0 THEN Res(nl, TRUE, k, "run")
     ELSE IF ~AllocOk(F, k + 1) THEN Res(nl, FALSE, k + 1, "run")
     ELSE Res(AddLoop([nl EXCEPT !.list = buf], nodes, 1), TRUE, k + 1, "run")

\* Mutant: the second loop appends every address the first loop counted as
\* new, without searching the list again
RECURSIVE AppendCounted(_, _, _, _)
AppendCounted(nl0, nl, nodes, idx) ==
  IF idx > Len(nodes) THEN nl
  ELSE IF ~mesh_device_list_search(nl0, nodes[idx])
    THEN AppendCounted(nl0, [nl EXCEPT !.list[nl.entries_count].mac = nodes[idx],
                                       !.entries_count = nl.entries_count + 1],
                       nodes, idx + 1)
    ELSE AppendCounted(nl0, nl, nodes, idx + 1)

AddNoDedup(nl, null, nodes, k, F) ==
  IF null \/ ~nl.alloc \/ nl.entries_count < 1 THEN Res(nl, FALSE, k, "run")
  ELSE
    LET r == AddNodes(nl, nodes, k, F)
    IN IF r.nl = nl THEN r
       ELSE Res(AppendCounted(nl, [nl EXCEPT !.list =
                                     [i \in 1..Len(r.nl.list) |->
                                        IF i <= nl.entries_count - 1
                                          THEN nl.list[i] ELSE ZeroNode]],
                              nodes, 1), TRUE, r.k, "run")

\* Mutant: the check for a missing root is left out; the first address then
\* lands in the slot before the list
AddWithoutRoot(nl, null, nodes, k, F) ==
  IF null THEN Res(nl, FALSE, k, "run")
  ELSE IF ~nl.alloc THEN Res(nl, FALSE, k, "run")
  ELSE AddNodes([nl EXCEPT !.entries_count = IF @ < 1 THEN 1 ELSE @], nodes, k, F)

mesh_device_add(nl, null, nodes, k, F) ==
  IF null THEN Res(nl, FALSE, k, "run")
  ELSE IF ~nl.alloc THEN Res(nl, FALSE, k, "run")
  ELSE IF nl.entries_count < 1 THEN Res(nl, FALSE, k, "run")
  ELSE AddNodes(nl, nodes, k, F)

\* os_memcmp(&root.mac_addr, &nodes[i], sizeof(struct mesh_device_mac_type) == 0):
\* the length compared is the value of (sizeof(...) == 0), that is 0 bytes, so
\* the comparison yields 0 and the branch guarded by it is not taken
DelIsRoot(nl, node) == FALSE

\* Mutant: the last entry is copied over the deleted one instead of moving
\* every later entry one place to the front
DelShiftSwapsLast(nl, idx) ==
  [nl EXCEPT !.list = [j \in 1..Len(nl.list) |->
                         IF j = idx /\ j < nl.entries_count - 1
                           THEN nl.list[nl.entries_count - 1] ELSE nl.list[j]],
             !.entries_count = nl.entries_count - 1]

\* One deletion: the entries behind idx move one place to the front.  The
\* ranges of this os_memcpy overlap, with the destination below the source;
\* the copy runs from the lowest address upwards, so each entry is read before
\* its place is written
DelShift(nl, idx) ==
  [nl EXCEPT !.list = [j \in 1..Len(nl.list) |->
                         IF j >= idx /\ j < nl.entries_count - 1
                           THEN nl.list[j + 1] ELSE nl.list[j]],
             !.entries_count = nl.entries_count - 1]

\* The while loop of mesh_device_del; [nl, st, released]
RECURSIVE DelLoop(_, _, _)
DelLoop(nl, nodes, i) ==
  IF i > Len(nodes) THEN [nl |-> nl, st |-> "run", released |-> FALSE]
  ELSE IF ~mesh_device_list_search(nl, nodes[i])
    THEN [nl |-> nl, st |-> "hang", released |-> FALSE]   \* the index is not advanced
  ELSE IF DelIsRoot(nl, nodes[i])
    THEN [nl |-> mesh_device_list_release(nl), st |-> "run", released |-> TRUE]
  ELSE
    LET idx == FirstIdx(nl, nodes[i])
    IN DelLoop(IF idx > 0 THEN DelShift(nl, idx) ELSE nl, nodes, i + 1)

\* The result also tells whether the old member storage was freed
DRes(nl, ret, k, st, freed) == [nl |-> nl, ret |-> ret, k |-> k, st |-> st, freed |-> freed]

\* Mutant: when the last sub-node goes, the whole registry is released
\* instead of the member storage only
DelReleasesAll(nl, null, nodes, k, F) ==
  IF null \/ Len(nodes) <= 0 THEN DRes(nl, TRUE, k, "run", FALSE)
  ELSE IF ~nl.alloc THEN DRes(nl, FALSE, k, "run", FALSE)
  ELSE IF nl.entries_count <= 0 THEN DRes(nl, TRUE, k, "run", FALSE)
  ELSE
    LET l == DelLoop(nl, nodes, 1)
        n1 == l.nl
    IN IF l.st # "run" THEN DRes(n1, FALSE, k, l.st, FALSE)
       ELSE IF l.released THEN DRes(n1, TRUE, k, "run", nl.list # <<>>)
       ELSE IF n1.entries_count = nl.entries_count THEN DRes(n1, TRUE, k, "run", FALSE)
       ELSE IF n1.entries_count > 1
         THEN IF AllocOk(F, k + 1)
                THEN DRes([n1 EXCEPT !.list = SubSeq(n1.list, 1, n1.entries_count - 1)],
                          TRUE, k + 1, "run", TRUE)
                ELSE DRes(n1, FALSE, k + 1, "run", FALSE)
         ELSE DRes(mesh_device_list_release(n1), TRUE, k, "run", TRUE)

mesh_device_del(nl, null, nodes, k, F) ==
  IF null \/ Len(nodes) <= 0 THEN DRes(nl, TRUE, k, "run", FALSE)
  ELSE IF ~nl.alloc THEN DRes(nl, FALSE, k, "run", FALSE)
  ELSE IF nl.entries_count <= 0 THEN DRes(nl, TRUE, k, "run", FALSE)
  ELSE
    LET l == DelLoop(nl, nodes, 1)
        n1 == l.nl
    IN IF l.st # "run" THEN DRes(n1, FALSE, k, l.st, FALSE)
       ELSE IF l.released THEN DRes(n1, TRUE, k, "run", nl.list # <<>>)
       ELSE IF n1.entries_count = nl.entries_count THEN DRes(n1, TRUE, k, "run", FALSE)
       ELSE IF n1.entries_count > 1
         THEN IF AllocOk(F, k + 1)
                THEN DRes([n1 EXCEPT !.list = SubSeq(n1.list, 1, n1.entries_count - 1)],
                          TRUE, k + 1, "run", TRUE)
                ELSE DRes(n1, FALSE, k + 1, "run", FALSE)
         ELSE DRes([n1 EXCEPT !.list = <<>>], TRUE, k, "run", TRUE)


----------------------------------------------------------------------------
(* The eviction loop shared by mesh_parser_protocol_none and mesh_topology_test *)

\* (system_get_time() - timestamp) / 1000 in uint32 arithmetic
AgeMs(t, ts) == Div32(Sub32(t, ts), UsPerMs)

Stale(t, ts) == AgeMs(t, ts) > SUB_NODE_TIMEOUT_THRESHOLD

\* q without the entries that the staleness test selects at time t
Fresh(q, t) ==
  LET Keep(e) == ~Stale(t, e.ts) IN SelectSeq(q, Keep)

\* What a read through node_list_list_cpy yields once mesh_device_del has freed
\* the storage it points to: the old content (intact) or any other entry.
\* Only the outcome of the staleness test and the address matter.
Intact == [intact |-> TRUE, node |-> ZeroNode]
UafChoices(t) ==
  {Intact}
    \cup {[intact |-> FALSE, node |-> [mac |-> ZeroMac, ts |-> t]]}
    \cup {[intact |-> FALSE, node |-> [mac |-> m, ts |-> Add32(t, FromInt(1))]] :
            m \in MAC \cup {ZeroMac}}

ERes(nl, k, st, uafRead) == [nl |-> nl, k |-> k, st |-> st, uafRead |-> uafRead]

\* while (dev_idx-- > 0): snap is the content of the storage the view points
\* to, dangling whether that storage has been freed
RECURSIVE EvictLoop(_, _, _, _, _, _, _, _, _)
EvictLoop(nl, snap, dangling, dev_idx, t, k, F, uaf, uafRead) ==
  IF dev_idx <= 0 THEN ERes(nl, k, "run", uafRead)
  ELSE
    LET entry == IF ~dangling THEN nl.list[dev_idx]
                 ELSE IF uaf.intact THEN snap[dev_idx] ELSE uaf.node
        ur == uafRead \/ dangling
    IN IF ~Stale(t, entry.ts)
         THEN EvictLoop(nl, snap, dangling, dev_idx - 1, t, k, F, uaf, ur)
         ELSE
           LET d == mesh_device_del(nl, FALSE, <<entry.mac>>, k, F)
               snap1 == IF ~dangling /\ d.freed THEN nl.list ELSE snap
           IN IF d.st # "run" THEN ERes(d.nl, d.k, d.st, ur)
              ELSE EvictLoop(d.nl, snap1, dangling \/ d.freed, dev_idx - 1, t,
                             d.k, F, uaf, ur)

\* mesh_device_list_get(&node_list_list_cpy, &dev_idx) and the loop behind it
EvictStale(nl, t, k, F, uaf) ==
  LET g == mesh_device_list_get(nl)
  IN IF g.ret /\ g.view
       THEN EvictLoop(nl, nl.list, FALSE, g.count, t, k, F, uaf, FALSE)
       ELSE ERes(nl, k, "run", FALSE)

\* The choices a dangling read can make matter only when one happens
UafDomain(nl, t, k, F) ==
  IF Len(Members(nl)) >= 2 /\ EvictStale(nl, t, k, F, Intact).uafRead
    THEN UafChoices(t) ELSE {Intact}

----------------------------------------------------------------------------
(* mesh_none.c *)

\* if (mesh_device_root_set(a)) mesh_device_update_timestamp(a, 1);
SetRootAndTouch(nl, root, t, k, F) ==
  LET r == mesh_device_root_set(nl, FALSE, root, k, F)
  IN IF r.st = "run" /\ r.ret
       THEN Res(mesh_device_update_timestamp(r.nl, FALSE, <<root>>, t).nl, TRUE, r.k, "run")
       ELSE r

\* if (mesh_device_add(a, n)) mesh_device_update_timestamp(a, n);
AddAndTouch(nl, nodes, t, k, F) ==
  LET a == mesh_device_add(nl, FALSE, nodes, k, F)
  IN IF a.ret
       THEN Res(mesh_device_update_timestamp(a.nl, FALSE, nodes, t).nl, TRUE, a.k, "run")
       ELSE a

\* while (espconn_mesh_get_option(header, M_O_TOPO_RESP, op_idx++, &option))
RECURSIVE OptionLoop(_, _, _, _, _, _)
OptionLoop(nl, opts, op_idx, t, k, F) ==
  IF op_idx > Len(opts) THEN Res(nl, TRUE, k, "run")
  ELSE
    LET a == AddAndTouch(nl, opts[op_idx], t, k, F)
    IN OptionLoop(a.nl, opts, op_idx + 1, t, a.k, F)

\* The registry work of the handler up to the eviction loop
ResponseUpdate(nl, src, opts, t, F) ==
  LET r == SetRootAndTouch(nl, src, t, 0, F)
  IN IF r.st # "run" THEN r ELSE OptionLoop(r.nl, opts, 1, t, r.k, F)

\* The root branch of mesh_topology_test once espconn_mesh_get_node_info has
\* answered with info: info[1] is the upstream address, the rest the sub-nodes
RootUpdate(nl, info, t, F) ==
  IF Len(info) < 1 THEN Res(nl, TRUE, 0, "run")
  ELSE
    LET r == SetRootAndTouch(nl, info[1], t, 0, F)
    IN IF r.st # "run" THEN r
       ELSE IF Len(info) > 1 THEN AddAndTouch(r.nl, Tail(info), t, r.k, F)
       ELSE r

----------------------------------------------------------------------------
(* Inputs *)

\* Address arrays of length 0..n
AddrLists(n) == UNION {[1..m -> MAC] : m \in 0..n}

\* A pointer-and-count argument: NULL, or an array of up to MaxList addresses
ArrayArgs ==
  {[null |-> TRUE, nodes |-> <<>>]}
    \cup {[null |-> FALSE, nodes |-> l] : l \in AddrLists(MaxList)}

RECURSIVE SumLen(_)
SumLen(o) == IF o = <<>> THEN 0 ELSE Len(Head(o)) + SumLen(Tail(o))

\* The topology-response options of one inbound message (none: another
\* message), each with at least one address
RespOpts ==
  {o \in UNION {[1..n -> AddrLists(MaxResp) \ {<<>>}] : n \in 0..MaxOpts} :
     SumLen(o) <= MaxResp}

\* What espconn_mesh_get_node_info reports: upstream address, then sub-nodes
InfoLists == AddrLists(MaxResp + 1)

\* enum mesh_usr_proto_type: the protocols a packet can name
M_PROTO_NONE == "M_PROTO_NONE"
Protocols == {M_PROTO_NONE, "M_PROTO_MQTT", "M_PROTO_BIN"}

\* espconn_mesh_get_usr_data_proto fails for the packet
Unresolved == "unresolved"

\* static struct mesh_parser_protocol_type supported_protocols[]
supported_protocols ==
  <<[protocol |-> M_PROTO_NONE, handler |-> "mesh_parser_protocol_none"]>>

\* The binding tables the parser's lookup is run on: the program's table, and
\* that table with a further binding that has no handler
Tables ==
  {supported_protocols,
   supported_protocols \o <<[protocol |-> "M_PROTO_MQTT", handler |-> "null"]>>}

\* (arg, data, len) of a receive callback: arg and data may be NULL (null is
\* data == NULL), len is 0 or positive
NoCall == [arg |-> TRUE, null |-> FALSE, len |-> 1]
CallArgs == [arg : BOOLEAN, null : BOOLEAN, len : 0..1]

\* What the mesh header of a received packet says: its protocol, its source
\* and its topology-response options
Headers ==
  {[proto |-> M_PROTO_NONE, src |-> m, opts |-> o] : m \in MAC, o \in RespOpts}
    \cup {[proto |-> p, src |-> CHOOSE m \in MAC : TRUE, opts |-> <<>>] :
            p \in (Protocols \ {M_PROTO_NONE}) \cup {Unresolved}}

\* The calls of the receive callback: valid arguments with any packet, or
\* invalid arguments (the packet is then not looked at)
PacketCalls ==
  {[a |-> NoCall, h |-> h] : h \in Headers}
    \cup {[a |-> a, h |-> CHOOSE h \in Headers : h.proto = Unresolved] :
            a \in CallArgs \ {NoCall}}

\* espconn_mesh_get_status(): the phases in which a topology test is run, and
\* the other phases
AvailStatuses ==
  {"MESH_LOCAL_AVAIL", "MESH_ONLINE_AVAIL", "MESH_SOFTAP_AVAIL", "MESH_LEAF_AVAIL"}
MeshStatuses == AvailStatuses \cup {"MESH_DISABLE", "MESH_WIFI_CONN", "MESH_NET_CONN"}

\* wifi_get_opmode(): the modes in which the request is sent, and NULL_MODE
RequestModes == {"SOFTAP_MODE", "STATION_MODE", "STATIONAP_MODE"}
WifiModes == RequestModes \cup {"NULL_MODE"}

\* What a timer fire finds: the socket, the mesh status, the role and the
\* WiFi mode
NoEnv ==
  [conn |-> TRUE, mesh_status |-> "MESH_ONLINE_AVAIL", root |-> FALSE,
   op_mode |-> "STATION_MODE"]

\* Whether the transport calls of a cycle succeed: espconn_mesh_get_node_info
\* (info), espconn_mesh_create_packet, espconn_mesh_create_option,
\* espconn_mesh_add_option and espconn_mesh_sent.  What follows the first
\* failure is not called and is left at TRUE.
AllOk == [info |-> TRUE, packet |-> TRUE, option |-> TRUE, add |-> TRUE, sent |-> TRUE]
TransportOutcomes ==
  {AllOk, [AllOk EXCEPT !.packet = FALSE], [AllOk EXCEPT !.option = FALSE],
   [AllOk EXCEPT !.add = FALSE], [AllOk EXCEPT !.sent = FALSE]}

\* A resource of a cycle: whether it was created and how often it was freed
Unmade == [made |-> FALSE, freed |-> 0]
Made == [made |-> TRUE, freed |-> 0]

\* What a cycle did with the transport: the transport calls in order with
\* their success, the packets handed to espconn_mesh_sent, and the packet
\* (header) and the option it created
NoOut == [ret |-> FALSE, calls |-> <<>>, sent |-> <<>>, header |-> Unmade, option |-> Unmade]

\* A fourth address, so that a registry can hold a root and three sub-nodes
WideMAC == MAC \cup {4}

\* Calls with an array of one address
OneAddress == {[null |-> FALSE, nodes |-> <<a>>] : a \in WideMAC}

\* The allocation calls of one handler that fail, when it makes at most n
FailSets(n) == SUBSET (1..Min(n, MaxAllocs))

\* Whether one of the k allocation calls made has failed
AnyFail(F, k) == F \cap (1..k) # {}

----------------------------------------------------------------------------
(* State *)

\* The mesh library before espconn_mesh_enable: no request is pending, nothing
\* is registered; user_init has yet to call mesh_init.  retries and watchdog
\* are history: the re-invocations of espconn_mesh_enable since the last
\* success or disable, and whether the watchdog has asked for the disable
\* that is pending
NoMesh ==
  [status |-> "MESH_DISABLE", enable |-> FALSE, disable |-> FALSE, recv |-> FALSE,
   esptouch |-> FALSE, boot |-> TRUE, button |-> FALSE, retries |-> 0,
   watchdog |-> FALSE]

\* The variables of esp_mesh.c before user_init
NoDevice ==
  [count |-> 1, led |-> "null", wdt |-> "null", mode |-> "DISABLED", mesh |-> NoMesh,
   conn |-> FALSE]

\* The mesh library after a successful enable, the receive callback registered
EnabledMesh ==
  [NoMesh EXCEPT !.status = "MESH_ONLINE_AVAIL", !.recv = TRUE, !.boot = FALSE]

\* last is a history variable.  A step is taken either unobserved (last stays
\* NoOp) or observed: then last records the operation, its arguments, its
\* result, the registry before it (pre) and the registry when its eviction
\* loop started (mid), and the behaviour ends there.  Every step of every
\* reachable state is observed in this way.  dev holds the variables of
\* esp_mesh.c before a callback of esp_mesh.c, result what the callback was
\* called with and req what it asked the mesh library for ("enable",
\* "disable" or "none").  timer is topology_timer before
\* the operation; call, proto and table are what mesh_packet_parser was called
\* with, lookup and binding tell how far it got; env is what a timer fire found
\* and out what its cycle did with the transport.
NoOp ==
  [op |-> "none", null |-> FALSE, nodes |-> <<>>, src |-> ZeroMac, opts |-> <<>>,
   ret |-> TRUE, pre |-> NullList, mid |-> NullList, allocFail |-> FALSE,
   uafRead |-> FALSE, timer |-> "null", call |-> NoCall, proto |-> M_PROTO_NONE,
   table |-> <<>>, lookup |-> FALSE, binding |-> "none", env |-> NoEnv,
   out |-> NoOut, dev |-> NoDevice, result |-> "none", req |-> "none"]

Running == status = "run" /\ last.op = "none"

Observe(rec) == last' \in {NoOp, rec}

\* The device after boot and a successful mesh enable: the socket exists, no
\* registry and no timer yet
Init ==
  /\ node_list = NullList
  /\ topology_timer = "null"
  /\ esp_mesh_conn = TRUE
  /\ is_root = FALSE
  /\ sub_dev_mac = "null"
  /\ now = StartTime
  /\ ticks = 0
  /\ status = "run"
  /\ last = NoOp
  /\ esp_mesh_enable_attempt_count = 1
  /\ led_blink_timer = "idle"
  /\ esp_mesh_conn_timeout_wdt = "armed"
  /\ mode = "DISABLED"
  /\ mesh = EnabledMesh
  /\ armed_timers = 0
  /\ topology_stopped = FALSE

\* Time passes between two callbacks
Tick ==
  /\ Running
  /\ ticks < MaxTicks
  /\ now' = Add32(now, Delta(ticks))
  /\ ticks' = ticks + 1
  /\ UNCHANGED <<node_list, topology_timer, esp_mesh_conn, device, engine, is_root, sub_dev_mac, status, last>>

----------------------------------------------------------------------------
(* Calls of the registry's public functions (mesh_device.h) *)

ListInit ==
  /\ Running
  /\ \E F \in FailSets(IF node_list.alloc THEN 0 ELSE 1) :
       /\ node_list' = mesh_device_list_init(node_list, AllocOk(F, 1))
       /\ Observe([NoOp EXCEPT !.op = "list_init", !.pre = node_list,
                               !.allocFail = (F # {})])
  /\ UNCHANGED <<topology_timer, esp_mesh_conn, device, engine, is_root, sub_dev_mac, now, ticks, status>>

ListRelease ==
  /\ Running
  /\ node_list' = mesh_device_list_release(node_list)
  /\ Observe([NoOp EXCEPT !.op = "list_release", !.pre = node_list])
  /\ UNCHANGED <<topology_timer, esp_mesh_conn, device, engine, is_root, sub_dev_mac, now, ticks, status>>

RootSet ==
  /\ Running
  /\ \E a \in {x \in ArrayArgs : Len(x.nodes) = (IF x.null THEN 0 ELSE 1)},
        F \in FailSets(IF node_list.alloc THEN 0 ELSE 1) :
       \E r \in {mesh_device_root_set(node_list, a.null,
                                      IF a.null THEN ZeroMac ELSE a.nodes[1], 0, F)} :
          /\ node_list' = r.nl
          /\ status' = r.st
          /\ Observe([NoOp EXCEPT !.op = "root_set", !.null = a.null,
                                  !.nodes = a.nodes, !.ret = r.ret,
                                  !.pre = node_list,
                                  !.allocFail = AnyFail(F, r.k)])
  /\ UNCHANGED <<topology_timer, esp_mesh_conn, device, engine, is_root, sub_dev_mac, now, ticks>>

UpdateTimestamp ==
  /\ Running
  /\ \E a \in ArrayArgs :
       \E r \in {mesh_device_update_timestamp(node_list, a.null, a.nodes, now)} :
          /\ node_list' = r.nl
          /\ Observe([NoOp EXCEPT !.op = "update_timestamp", !.null = a.null,
                                  !.nodes = a.nodes, !.ret = r.ret,
                                  !.pre = node_list])
  /\ UNCHANGED <<topology_timer, esp_mesh_conn, device, engine, is_root, sub_dev_mac, now, ticks, status>>

Add ==
  /\ Running
  /\ \E a \in ArrayArgs, F \in FailSets(1) :
       \E r \in {mesh_device_add(node_list, a.null, a.nodes, 0, F)} :
          /\ F \subseteq 1..r.k
          /\ node_list' = r.nl
          /\ Observe([NoOp EXCEPT !.op = "add", !.null = a.null, !.nodes = a.nodes,
                                  !.ret = r.ret, !.pre = node_list,
                                  !.allocFail = AnyFail(F, r.k)])
  /\ UNCHANGED <<topology_timer, esp_mesh_conn, device, engine, is_root, sub_dev_mac, now, ticks, status>>

Del ==
  /\ Running
  /\ \E a \in ArrayArgs, F \in FailSets(1) :
       \E r \in {mesh_device_del(node_list, a.null, a.nodes, 0, F)} :
          /\ F \subseteq 1..r.k
          /\ node_list' = r.nl
          /\ status' = r.st
          /\ Observe([NoOp EXCEPT !.op = "del", !.null = a.null, !.nodes = a.nodes,
                                  !.ret = r.ret, !.pre = node_list,
                                  !.allocFail = AnyFail(F, r.k)])
  /\ UNCHANGED <<topology_timer, esp_mesh_conn, device, engine, is_root, sub_dev_mac, now, ticks>>

\* The same functions called with one address out of four
RootSetOne ==
  /\ Running
  /\ \E a \in OneAddress, F \in FailSets(IF node_list.alloc THEN 0 ELSE 1) :
       \E r \in {mesh_device_root_set(node_list, a.null, a.nodes[1], 0, F)} :
          /\ node_list' = r.nl
          /\ status' = r.st
          /\ Observe([NoOp EXCEPT !.op = "root_set", !.null = a.null,
                                  !.nodes = a.nodes, !.ret = r.ret,
                                  !.pre = node_list,
                                  !.allocFail = AnyFail(F, r.k)])
  /\ UNCHANGED <<topology_timer, esp_mesh_conn, device, engine, is_root, sub_dev_mac, now, ticks>>

UpdateTimestampOne ==
  /\ Running
  /\ \E a \in OneAddress :
       \E r \in {mesh_device_update_timestamp(node_list, a.null, a.nodes, now)} :
          /\ node_list' = r.nl
          /\ Observe([NoOp EXCEPT !.op = "update_timestamp", !.null = a.null,
                                  !.nodes = a.nodes, !.ret = r.ret,
                                  !.pre = node_list])
  /\ UNCHANGED <<topology_timer, esp_mesh_conn, device, engine, is_root, sub_dev_mac, now, ticks, status>>

AddOne ==
  /\ Running
  /\ \E a \in OneAddress, F \in FailSets(1) :
       \E r \in {mesh_device_add(node_list, a.null, a.nodes, 0, F)} :
          /\ F \subseteq 1..r.k
          /\ node_list' = r.nl
          /\ Observe([NoOp EXCEPT !.op = "add", !.null = a.null, !.nodes = a.nodes,
                                  !.ret = r.ret, !.pre = node_list,
                                  !.allocFail = AnyFail(F, r.k)])
  /\ UNCHANGED <<topology_timer, esp_mesh_conn, device, engine, is_root, sub_dev_mac, now, ticks, status>>

DelOne ==
  /\ Running
  /\ \E a \in OneAddress, F \in FailSets(1) :
       \E r \in {mesh_device_del(node_list, a.null, a.nodes, 0, F)} :
          /\ F \subseteq 1..r.k
          /\ node_list' = r.nl
          /\ status' = r.st
          /\ Observe([NoOp EXCEPT !.op = "del", !.null = a.null, !.nodes = a.nodes,
                                  !.ret = r.ret, !.pre = node_list,
                                  !.allocFail = AnyFail(F, r.k)])
  /\ UNCHANGED <<topology_timer, esp_mesh_conn, device, engine, is_root, sub_dev_mac, now, ticks>>

\* The eviction step on its own: mesh_device_list_get and the deletion loop
Evict ==
  /\ Running
  /\ \E F \in FailSets(Len(Members(node_list))) :
       \E uaf \in UafDomain(node_list, now, 0, F) :
         \E e \in {EvictStale(node_list, now, 0, F, uaf)} :
            /\ F \subseteq 1..e.k
            /\ node_list' = e.nl
            /\ status' = e.st
            /\ Observe([NoOp EXCEPT !.op = "evict", !.ret = (e.st = "run"),
                                    !.pre = node_list, !.mid = node_list,
                                    !.allocFail = AnyFail(F, e.k),
                                    !.uafRead = e.uafRead])
  /\ UNCHANGED <<topology_timer, esp_mesh_conn, device, engine, is_root, sub_dev_mac, now, ticks>>

----------------------------------------------------------------------------
(* Callbacks of mesh_none.c *)

\* An upper bound of the allocation calls of a cycle that makes n calls of
\* mesh_device_add: one for a missing registry, one for each add, and one
\* for each entry of the eviction loop if there is a stale sub-node at all
PotAllocs(nl, n, t) ==
  (IF nl.alloc THEN 0 ELSE 1) + n
    + (IF Fresh(Members(nl), t) = Members(nl) THEN 0 ELSE Len(Members(nl)) + n * MaxResp)

\* Mutant: the handler does not check for the topology-response option
HasTopoRespAlways(opts) == TRUE

\* if (espconn_mesh_get_option(header, M_O_TOPO_RESP, op_idx, &option)):
\* the message carries the topology-response option
HasTopoResp(opts) == opts # <<>>

\* mesh_parser_protocol_none, called for a received message with source
\* header.src and the topology-response options header.opts; a message without
\* that option is left alone.  obs is the observation so far.
mesh_parser_protocol_none(header, obs) ==
  /\ Running
  /\ esp_mesh_conn
  /\ \/ /\ ~HasTopoResp(header.opts)
        /\ Observe([obs EXCEPT !.op = "response", !.src = header.src,
                               !.pre = node_list, !.mid = node_list])
        /\ UNCHANGED <<node_list, status>>
     \/ /\ HasTopoResp(header.opts)
        /\ \E F \in FailSets(PotAllocs(node_list, Len(header.opts), now)) :
             \E u \in {ResponseUpdate(node_list, header.src, header.opts, now, F)} :
                \E uaf \in (IF u.st = "run" THEN UafDomain(u.nl, now, u.k, F)
                                            ELSE {Intact}) :
                  \E e \in {IF u.st = "run" THEN EvictStale(u.nl, now, u.k, F, uaf)
                                            ELSE ERes(u.nl, u.k, u.st, FALSE)} :
                     /\ F \subseteq 1..e.k
                     /\ node_list' = e.nl
                     /\ status' = e.st
                     /\ Observe([obs EXCEPT !.op = "response", !.src = header.src,
                                            !.opts = header.opts,
                                            !.ret = (e.st = "run"),
                                            !.pre = node_list, !.mid = u.nl,
                                            !.allocFail = AnyFail(F, e.k),
                                            !.uafRead = e.uafRead])
  /\ UNCHANGED <<topology_timer, esp_mesh_conn, device, engine, is_root, sub_dev_mac, now, ticks>>

----------------------------------------------------------------------------
(* mesh_parser.c and the receive callback of esp_mesh.c *)

\* Mutant: the length of the packet is not checked
ArgsOkIgnoreLen(arg, data, len) == arg /\ data

\* if (!arg || !data || len <= 0) of mesh_packet_parser
ParserArgsOk(arg, data, len) == arg /\ data /\ len > 0

\* if (!arg || !data || len <= 0) of esp_mesh_recv_cb
RecvArgsOk(arg, data, len) == arg /\ data /\ len > 0

\* Mutant: a protocol the table does not bind to a handler falls back to the
\* table's first binding
ParserLoopDefault(table, protocol, idx) ==
  IF \E i \in DOMAIN table : table[i].protocol = protocol /\ table[i].handler # "null"
    THEN table[CHOOSE i \in DOMAIN table :
                 table[i].protocol = protocol /\ table[i].handler # "null"].handler
    ELSE (IF Len(table) >= idx THEN table[idx].handler ELSE "absent")

\* for (idx = 0; idx < protocol_count; idx++): the handler bound to the
\* protocol ("null": a binding without handler), "absent" if the loop runs
\* through
RECURSIVE ParserLoop(_, _, _)
ParserLoop(table, protocol, idx) ==
  IF idx > Len(table) THEN "absent"
  ELSE IF table[idx].protocol = protocol THEN table[idx].handler
  ELSE ParserLoop(table, protocol, idx + 1)

\* The packet is dropped: the call returns and nothing has changed
ParserDrop(obs) ==
  /\ Running
  /\ Observe([obs EXCEPT !.op = "parser_drop", !.pre = node_list,
                         !.mid = node_list])
  /\ UNCHANGED <<node_list, topology_timer, esp_mesh_conn, device, engine, is_root, sub_dev_mac,
                 now, ticks, status>>

\* mesh_packet_parser(arg, data, len) with the binding table it searches; a
\* is (arg, data, len) and header what the packet's mesh header says
mesh_packet_parser(table, a, header) ==
  \E obs \in {[NoOp EXCEPT !.call = a, !.table = table, !.proto = header.proto]} :
    IF ~ParserArgsOk(a.arg, ~a.null, a.len) THEN ParserDrop(obs)
    ELSE IF header.proto = Unresolved THEN ParserDrop([obs EXCEPT !.lookup = TRUE])
    ELSE \E h \in {ParserLoop(table, header.proto, 1)} :
           IF h \in {"null", "absent"}
             THEN ParserDrop([obs EXCEPT !.lookup = TRUE, !.binding = h])
             ELSE mesh_parser_protocol_none(
                    header, [obs EXCEPT !.lookup = TRUE, !.binding = h])

\* esp_mesh_recv_cb: the receive callback registered on esp_mesh_conn
esp_mesh_recv_cb ==
  /\ Running
  /\ esp_mesh_conn
  /\ mesh.recv
  /\ \E c \in PacketCalls :
       IF ~RecvArgsOk(c.a.arg, ~c.a.null, c.a.len)
         THEN ParserDrop([NoOp EXCEPT !.call = c.a, !.proto = c.h.proto])
         ELSE mesh_packet_parser(supported_protocols, c.a, c.h)

\* A call of mesh_packet_parser (mesh_parser.h) on its own
ParserCall ==
  /\ Running
  /\ \E table \in Tables, c \in PacketCalls : mesh_packet_parser(table, c.a, c.h)

----------------------------------------------------------------------------
(* The topology test of mesh_none.c and the mesh role *)

\* The mesh is rebuilt and the device becomes, or stops being, its root
MeshRoleChange ==
  /\ Running
  /\ is_root' = ~is_root
  /\ UNCHANGED <<node_list, topology_timer, esp_mesh_conn, device, engine, sub_dev_mac, now, ticks,
                 status, last>>

\* mesh_topology_test in the root role, fired by the armed timer, when
\* espconn_mesh_get_node_info reports info
TopologyTestRoot ==
  /\ Running
  /\ topology_timer = "armed"
  /\ esp_mesh_conn
  /\ is_root
  /\ \E info \in InfoLists :
       \E F \in FailSets(PotAllocs(node_list, IF Len(info) > 1 THEN 1 ELSE 0, now)) :
         \E u \in {RootUpdate(node_list, info, now, F)} :
            \E uaf \in (IF u.st = "run" THEN UafDomain(u.nl, now, u.k, F)
                                        ELSE {Intact}) :
              \E e \in {IF u.st = "run" THEN EvictStale(u.nl, now, u.k, F, uaf)
                                        ELSE ERes(u.nl, u.k, u.st, FALSE)} :
                 /\ F \subseteq 1..e.k
                 /\ node_list' = e.nl
                 /\ status' = e.st
                 /\ sub_dev_mac' = IF e.st = "run" THEN "null" ELSE "held"
                 /\ Observe([NoOp EXCEPT !.op = "root_cycle", !.nodes = info,
                                         !.timer = topology_timer,
                                         !.ret = (e.st = "run"),
                                         !.pre = node_list, !.mid = u.nl,
                                         !.allocFail = AnyFail(F, e.k),
                                         !.uafRead = e.uafRead])
  /\ UNCHANGED <<topology_timer, esp_mesh_conn, device, engine, is_root, now, ticks>>

\* One transport call appended to the calls of the cycle
Called(o, fn, ok) == [o EXCEPT !.calls = Append(@, [fn |-> fn, ok |-> ok])]

\* Mutant: a failed cycle returns without freeing what it created
FailWithoutFree(o) == [o EXCEPT !.ret = FALSE]

\* if (header) os_free(header); if (option) os_free(option); return false;
FreeAndFail(o) ==
  [o EXCEPT !.header.freed = IF o.header.made THEN @ + 1 ELSE @,
            !.option.freed = IF o.option.made THEN @ + 1 ELSE @,
            !.ret = FALSE]

\* Mutant: the request is addressed to one node instead of the broadcast
\* address
RequestToNode(op_mode) ==
  [dst |-> 1,
   src |-> IF op_mode = "SOFTAP_MODE" THEN "SOFTAP_IF" ELSE "STATION_IF",
   proto |-> M_PROTO_NONE, options |-> <<"M_O_TOPO_REQ">>]

\* The topology request as the non-root branch builds it: broadcast
\* destination, the address of the interface in use as source, M_PROTO_NONE
\* and one M_O_TOPO_REQ option
TopologyRequest(op_mode) ==
  [dst |-> ZeroMac,
   src |-> IF op_mode = "SOFTAP_MODE" THEN "SOFTAP_IF" ELSE "STATION_IF",
   proto |-> M_PROTO_NONE, options |-> <<"M_O_TOPO_REQ">>]

\* Mutant: a failed send is tried a second time in the same cycle
RequestCycleRetry(op_mode, T) ==
  LET o1 == Called(NoOut, "espconn_mesh_create_packet", T.packet)
      o2 == Called([o1 EXCEPT !.header = Made], "espconn_mesh_create_option", T.option)
      o3 == Called([o2 EXCEPT !.option = Made], "espconn_mesh_add_option", T.add)
      o4 == [Called(o3, "espconn_mesh_sent", T.sent)
               EXCEPT !.sent = Append(@, TopologyRequest(op_mode))]
      o5 == [Called(o4, "espconn_mesh_sent", T.sent)
               EXCEPT !.sent = Append(@, TopologyRequest(op_mode))]
  IN IF ~T.packet THEN FreeAndFail(o1)
     ELSE IF ~T.option THEN FreeAndFail(o2)
     ELSE IF ~T.add THEN FreeAndFail(o3)
     ELSE IF ~T.sent THEN FreeAndFail(o5)
     ELSE [o4 EXCEPT !.header.freed = @ + 1, !.option.freed = @ + 1, !.ret = TRUE]

\* The non-root branch of mesh_topology_test behind the check of the WiFi
\* mode: create the packet, create the option, add it, send, free both
RequestCycle(op_mode, T) ==
  LET o1 == Called(NoOut, "espconn_mesh_create_packet", T.packet)
      o2 == Called([o1 EXCEPT !.header = Made], "espconn_mesh_create_option", T.option)
      o3 == Called([o2 EXCEPT !.option = Made], "espconn_mesh_add_option", T.add)
      o4 == [Called(o3, "espconn_mesh_sent", T.sent)
               EXCEPT !.sent = Append(@, TopologyRequest(op_mode))]
  IN IF ~T.packet THEN FreeAndFail(o1)
     ELSE IF ~T.option THEN FreeAndFail(o2)
     ELSE IF ~T.add THEN FreeAndFail(o3)
     ELSE IF ~T.sent THEN FreeAndFail(o4)
     ELSE [o4 EXCEPT !.header.freed = @ + 1, !.option.freed = @ + 1, !.ret = TRUE]

\* Mutant: the mesh status and the WiFi mode are not checked
TopologyTestUngated(env, T) ==
  IF ~env.conn THEN NoOut
  ELSE IF env.root THEN Called(NoOut, "espconn_mesh_get_node_info", T.info)
  ELSE RequestCycle(env.op_mode, T)

\* mesh_topology_test on the paths that do not reach the registry: no socket,
\* mesh not available, in the root role no node info, in the non-root role a
\* wrong WiFi mode or the request cycle
TopologyTest(env, T) ==
  IF ~env.conn THEN NoOut
  ELSE IF env.mesh_status \notin AvailStatuses THEN NoOut
  ELSE IF env.root THEN Called(NoOut, "espconn_mesh_get_node_info", T.info)
  ELSE IF env.op_mode \notin RequestModes THEN NoOut
  ELSE RequestCycle(env.op_mode, T)

\* What a timer fire can find, with what the code does not look at left at
\* its value in NoEnv and AllOk
TestCases(conn, root) ==
  {c \in [env : [conn : {conn}, mesh_status : MeshStatuses, root : {root},
                 op_mode : WifiModes],
          T : TransportOutcomes \cup {[AllOk EXCEPT !.info = FALSE]}] :
     LET gated == ~conn \/ c.env.mesh_status \notin AvailStatuses
     IN /\ gated => c.env.mesh_status \in {"MESH_DISABLE", "MESH_ONLINE_AVAIL"}
        /\ (gated \/ root) => c.env.op_mode = NoEnv.op_mode
        /\ (~gated /\ root) = ~c.T.info
        /\ (gated \/ root \/ c.env.op_mode \notin RequestModes) =>
             [c.T EXCEPT !.info = TRUE] = AllOk}

\* A call of mesh_topology_test that does not reach the registry.  In the root
\* role the function ends without a return statement when the node info is
\* not obtained: the value returned is then any value.
mesh_topology_test(conn) ==
  /\ Running
  /\ \E c \in TestCases(conn, is_root) :
       \E o \in {TopologyTest(c.env, c.T)}, ret \in BOOLEAN :
         /\ (c.env.conn /\ c.env.mesh_status \in AvailStatuses /\ c.env.root)
              \/ ret = o.ret
         /\ Observe([NoOp EXCEPT !.op = "topology_test", !.ret = ret,
                                 !.pre = node_list, !.timer = topology_timer,
                                 !.env = c.env, !.out = o])
  /\ UNCHANGED <<node_list, topology_timer, esp_mesh_conn, device, engine, is_root, sub_dev_mac,
                 now, ticks, status>>

\* mesh_topology_test fired by the armed timer, when it does not reach the
\* registry
TopologyTestOther ==
  /\ topology_timer = "armed"
  /\ mesh_topology_test(esp_mesh_conn)

\* mesh_topology_test called with or without a socket
TopologyTestCall ==
  \E conn \in BOOLEAN : mesh_topology_test(conn)

\* Mutant: the registry is released, but the timer is neither disarmed nor
\* freed
DisableKeepsTimer ==
  /\ Running
  /\ node_list' = mesh_device_list_release(node_list)
  /\ topology_stopped' = TRUE
  /\ Observe([NoOp EXCEPT !.op = "topology_disable", !.pre = node_list,
                          !.timer = topology_timer])
  /\ UNCHANGED <<topology_timer, esp_mesh_conn, device, armed_timers, is_root,
                 sub_dev_mac, now, ticks, status>>

\* mesh_topology_disable: the timer is disarmed and freed, the registry
\* released
mesh_topology_disable ==
  /\ Running
  /\ topology_timer' = "null"
  /\ armed_timers' = IF topology_timer = "null" THEN armed_timers ELSE armed_timers - 1
  /\ topology_stopped' = TRUE
  /\ node_list' = mesh_device_list_release(node_list)
  /\ Observe([NoOp EXCEPT !.op = "topology_disable", !.pre = node_list,
                          !.timer = topology_timer])
  /\ UNCHANGED <<esp_mesh_conn, device, is_root, sub_dev_mac, now, ticks, status>>

\* mesh_topology_init as it would be without the test for an existing timer:
\* every call allocates and arms a timer of its own
InitAllocatesAgain ==
  /\ Running
  /\ \E F \in FailSets(1 + (IF node_list.alloc THEN 0 ELSE 1)) :
       LET timerOk == AllocOk(F, 1)
           kl == IF timerOk /\ ~node_list.alloc THEN 2 ELSE 1
       IN /\ F \subseteq 1..kl
          /\ IF ~esp_mesh_conn \/ ~timerOk
               THEN UNCHANGED <<node_list, topology_timer, armed_timers>>
               ELSE /\ node_list' = mesh_device_list_init(node_list, AllocOk(F, 2))
                    /\ topology_timer' = "armed"
                    /\ armed_timers' = armed_timers + 1
          /\ Observe([NoOp EXCEPT !.op = "topology_init", !.pre = node_list,
                                  !.timer = topology_timer,
                                  !.ret = (esp_mesh_conn /\ timerOk),
                                  !.allocFail = AnyFail(F, kl)])
  /\ topology_stopped' = FALSE
  /\ UNCHANGED <<esp_mesh_conn, device, is_root, sub_dev_mac, now, ticks, status>>

mesh_topology_init ==
  /\ Running
  /\ \E F \in FailSets((IF topology_timer = "null" THEN 1 ELSE 0)
                         + (IF node_list.alloc THEN 0 ELSE 1)) :
       LET kt == IF topology_timer = "null" THEN 1 ELSE 0
           timerOk == topology_timer # "null" \/ AllocOk(F, 1)
           kl == IF timerOk /\ ~node_list.alloc THEN kt + 1 ELSE kt
       IN /\ F \subseteq 1..kl
          /\ IF ~esp_mesh_conn \/ ~timerOk
               THEN UNCHANGED <<node_list, topology_timer, armed_timers>>
               ELSE /\ node_list' = mesh_device_list_init(node_list, AllocOk(F, kt + 1))
                    /\ topology_timer' = "armed"
                    /\ armed_timers' = armed_timers + kt
          /\ Observe([NoOp EXCEPT !.op = "topology_init", !.pre = node_list,
                                  !.timer = topology_timer,
                                  !.ret = (esp_mesh_conn /\ timerOk),
                                  !.allocFail = AnyFail(F, kl)])
  /\ topology_stopped' = FALSE
  /\ UNCHANGED <<esp_mesh_conn, device, is_root, sub_dev_mac, now, ticks, status>>

----------------------------------------------------------------------------
(* The life cycle of the mesh node: esp_mesh.c *)

\* The variables of esp_mesh.c as one record, for the history variable
Device ==
  [count |-> esp_mesh_enable_attempt_count, led |-> led_blink_timer,
   wdt |-> esp_mesh_conn_timeout_wdt, mode |-> mode, mesh |-> mesh,
   conn |-> esp_mesh_conn]

\* espconn_mesh_enable(esp_mesh_enable_cb, MESH_ONLINE): the library starts to
\* join the network and will call esp_mesh_enable_cb with the result
RequestEnable(m) ==
  [m EXCEPT !.enable = TRUE,
            !.status = IF @ = "MESH_DISABLE" THEN "MESH_WIFI_CONN" ELSE @]

\* espconn_mesh_disable(esp_mesh_disable_cb): the library will call
\* esp_mesh_disable_cb
RequestDisable(m) == [m EXCEPT !.disable = TRUE]

\* esp_mesh_enable_fail_cb as it would be if the limit were tested with <=
EnableFailOneMore(count, m) ==
  IF count <= MESH_ENABLE_ATTEMPTS_LIMIT
    THEN [count |-> (count + 1) % 256, mesh |-> RequestEnable(m), req |-> "enable"]
    ELSE [count |-> count, mesh |-> RequestDisable(m), req |-> "disable"]

\* esp_mesh_enable_fail_cb as it would be if it counted past the limit
EnableFailCountsOn(count, m) ==
  IF count < MESH_ENABLE_ATTEMPTS_LIMIT
    THEN [count |-> (count + 1) % 256, mesh |-> RequestEnable(m), req |-> "enable"]
    ELSE [count |-> (count + 1) % 256, mesh |-> RequestDisable(m), req |-> "disable"]

\* esp_mesh_enable_fail_cb: what it does with the attempt counter (a uint8_t)
\* and what it asks the library for
esp_mesh_enable_fail_cb(count, m) ==
  IF count < MESH_ENABLE_ATTEMPTS_LIMIT
    THEN [count |-> (count + 1) % 256, mesh |-> RequestEnable(m), req |-> "enable"]
    ELSE [count |-> count, mesh |-> RequestDisable(m), req |-> "disable"]

\* The retries made since the budget was last reset; kept beside the code's
\* counter, which it does not read
CountRetry(r) ==
  [r.mesh EXCEPT !.retries = IF r.req = "enable" THEN @ + 1 ELSE @]

\* mesh_init, called by user_init: the blink timer (the device goes on
\* without it), the watchdog timer and the timer that waits for ESP-TOUCH are
\* allocated; ESP-TOUCH is started, or the mesh disabled if an allocation
\* failed
mesh_init ==
  /\ Running
  /\ mesh.boot
  /\ \E F \in SUBSET (1..3) :
       LET kl == IF led_blink_timer = "null" THEN 1 ELSE 0
           ledOk == led_blink_timer # "null" \/ AllocOk(F, 1)
           kw == IF esp_mesh_conn_timeout_wdt = "null" THEN kl + 1 ELSE kl
           wdtOk == esp_mesh_conn_timeout_wdt # "null" \/ AllocOk(F, kw)
           ke == IF wdtOk THEN kw + 1 ELSE kw
           touchOk == wdtOk /\ AllocOk(F, ke)
       IN /\ F \subseteq 1..ke
          /\ led_blink_timer' =
               IF led_blink_timer # "null" THEN led_blink_timer
               ELSE IF ledOk THEN "armed" ELSE "null"
          /\ esp_mesh_conn_timeout_wdt' =
               IF esp_mesh_conn_timeout_wdt # "null" THEN esp_mesh_conn_timeout_wdt
               ELSE IF wdtOk THEN "idle" ELSE "null"
          /\ mesh' = IF touchOk
                       THEN [mesh EXCEPT !.boot = FALSE, !.esptouch = TRUE]
                       ELSE RequestDisable([mesh EXCEPT !.boot = FALSE])
          /\ Observe([NoOp EXCEPT !.op = "mesh_init", !.dev = Device,
                                  !.ret = touchOk, !.allocFail = AnyFail(F, ke),
                                  !.req = IF touchOk THEN "none" ELSE "disable"])
  /\ UNCHANGED <<node_list, topology_timer, esp_mesh_conn, is_root, sub_dev_mac,
                 now, ticks, status, esp_mesh_enable_attempt_count, mode, engine>>

\* esptouch_over_timerfunc, fired every 500 ms while ESP-TOUCH is awaited:
\* nothing while it runs; when it is over the wait timer is freed and, on
\* success, the watchdog armed and the mesh enabled, otherwise the mesh
\* disabled.  os_timer_disarm on a watchdog that is not there reads through
\* a null pointer
esptouch_over_timerfunc ==
  /\ Running
  /\ mesh.esptouch
  /\ \E result \in {"running", "success", "failure"} :
       /\ led_blink_timer' =
            IF result = "success" /\ led_blink_timer # "null"
              THEN "armed" ELSE led_blink_timer
       /\ esp_mesh_conn_timeout_wdt' =
            IF result = "success" /\ esp_mesh_conn_timeout_wdt # "null"
              THEN "armed" ELSE esp_mesh_conn_timeout_wdt
       /\ status' = IF result = "success" /\ esp_mesh_conn_timeout_wdt = "null"
                      THEN "fault" ELSE status
       /\ mesh' = CASE result = "running" -> mesh
                    [] result = "success" /\ esp_mesh_conn_timeout_wdt = "null" ->
                         [mesh EXCEPT !.esptouch = FALSE]
                    [] result = "success" /\ esp_mesh_conn_timeout_wdt # "null" ->
                         RequestEnable([mesh EXCEPT !.esptouch = FALSE])
                    [] OTHER -> RequestDisable([mesh EXCEPT !.esptouch = FALSE])
       /\ Observe([NoOp EXCEPT !.op = "esptouch_over", !.dev = Device,
                               !.result = result,
                               !.req = CASE result = "running" -> "none"
                                         [] result = "success" -> "enable"
                                         [] OTHER -> "disable"])
  /\ UNCHANGED <<node_list, topology_timer, esp_mesh_conn, is_root, sub_dev_mac,
                 now, ticks, esp_mesh_enable_attempt_count, mode, engine>>

\* esp_mesh_rebuild_fail_cb, called by the library when the mesh could not be
\* rebuilt: the blink timer, if there is one, is armed, then
\* esp_mesh_enable_fail_cb runs
esp_mesh_rebuild_fail_cb ==
  /\ Running
  /\ mesh.status # "MESH_DISABLE"
  /\ \E r \in {esp_mesh_enable_fail_cb(esp_mesh_enable_attempt_count, mesh)} :
       /\ esp_mesh_enable_attempt_count' = r.count
       /\ mesh' = CountRetry(r)
       /\ Observe([NoOp EXCEPT !.op = "rebuild_fail", !.dev = Device,
                               !.result = "MESH_OP_FAILURE", !.req = r.req])
  /\ led_blink_timer' = IF led_blink_timer = "null" THEN "null" ELSE "armed"
  /\ UNCHANGED <<node_list, topology_timer, esp_mesh_conn, is_root, sub_dev_mac,
                 now, ticks, status, esp_mesh_conn_timeout_wdt, mode, engine>>

\* esp_mesh_enable_cb(result), called by the library after espconn_mesh_enable.
\* On a failure esp_mesh_enable_fail_cb runs.  On a success the counter is
\* reset, the blink timer disarmed, the socket allocated where missing, the
\* receive callback registered (regist), the connection opened (connect) and
\* mesh_topology_init called; where registering or connecting fails the mesh
\* is disabled.  os_timer_disarm on a blink timer that is not there (ledUB),
\* and the use of a socket whose allocation failed, go through a null pointer
EnableFailed ==
  /\ \E r \in {esp_mesh_enable_fail_cb(esp_mesh_enable_attempt_count,
                                       [mesh EXCEPT !.enable = FALSE])} :
       /\ esp_mesh_enable_attempt_count' = r.count
       /\ mesh' = CountRetry(r)
       /\ Observe([NoOp EXCEPT !.op = "enable_cb", !.dev = Device,
                               !.result = "MESH_OP_FAILURE", !.req = r.req])
  /\ UNCHANGED <<node_list, topology_timer, esp_mesh_conn, status,
                 led_blink_timer, engine>>

EnableSucceeded(result) ==
  \E F \in SUBSET (1..4), ledUB \in {"none", "fault"},
     regist \in BOOLEAN, connect \in BOOLEAN :
    LET kc == IF esp_mesh_conn THEN 0 ELSE 1
        connOk == esp_mesh_conn \/ AllocOk(F, 1)
        ks == IF ~esp_mesh_conn /\ connOk THEN 2 ELSE kc
        tcpOk == connOk /\ (esp_mesh_conn \/ AllocOk(F, 2))
        ledFault == led_blink_timer = "null" /\ ledUB = "fault"
        socket == ~ledFault /\ tcpOk
        started == socket /\ regist
                     /\ (connect \/ (is_root /\ result = "MESH_LOCAL_SUC"))
        kt == IF started /\ topology_timer = "null" THEN ks + 1 ELSE ks
        timerOk == topology_timer # "null" \/ AllocOk(F, kt)
        kl == IF started /\ timerOk /\ ~node_list.alloc THEN kt + 1 ELSE kt
        m1 == [mesh EXCEPT !.enable = FALSE, !.retries = 0,
                           !.status = IF result = "MESH_LOCAL_SUC"
                                        THEN "MESH_LOCAL_AVAIL"
                                        ELSE "MESH_ONLINE_AVAIL"]
        m2 == IF socket /\ regist THEN [m1 EXCEPT !.recv = TRUE] ELSE m1
    IN /\ F \subseteq 1..kl
       /\ led_blink_timer # "null" => ledUB = "none"
       /\ ledFault => F = {}
       /\ ~socket => (regist /\ connect)
       /\ ~regist => connect
       /\ esp_mesh_enable_attempt_count' = 1
       /\ led_blink_timer' = IF led_blink_timer = "null" THEN "null" ELSE "idle"
       /\ status' = IF socket THEN status ELSE "fault"
       /\ esp_mesh_conn' = IF ledFault THEN esp_mesh_conn ELSE connOk
       /\ mesh' = IF ~socket \/ started THEN m2 ELSE RequestDisable(m2)
       /\ IF started /\ timerOk
            THEN /\ node_list' = mesh_device_list_init(node_list, AllocOk(F, kt + 1))
                 /\ topology_timer' = "armed"
                 /\ armed_timers' = armed_timers
                                      + (IF topology_timer = "null" THEN 1 ELSE 0)
            ELSE UNCHANGED <<node_list, topology_timer, armed_timers>>
       /\ topology_stopped' = IF started THEN FALSE ELSE topology_stopped
       /\ Observe([NoOp EXCEPT !.op = "enable_cb", !.dev = Device,
                               !.result = result, !.pre = node_list,
                               !.timer = topology_timer,
                               !.ret = (started /\ timerOk),
                               !.allocFail = AnyFail(F, kl),
                               !.req = IF ~socket \/ started
                                         THEN "none" ELSE "disable"])

esp_mesh_enable_cb ==
  /\ Running
  /\ mesh.enable
  /\ \E result \in {"MESH_OP_FAILURE", "MESH_ONLINE_SUC", "MESH_LOCAL_SUC"} :
       IF result = "MESH_OP_FAILURE" THEN EnableFailed ELSE EnableSucceeded(result)
  /\ UNCHANGED <<is_root, sub_dev_mac, now, ticks, esp_mesh_conn_timeout_wdt, mode>>

\* esp_mesh_conn_timeout_wdtfunc as it would be without its call of
\* espconn_mesh_disable
WatchdogOnlyLogs(m) == m

\* esp_mesh_conn_timeout_wdtfunc, fired by the armed watchdog timer: the mesh
\* is disabled if the device has lost its connection to the router
WatchdogVerdict(m) ==
  IF m.status = "MESH_WIFI_CONN"
    THEN [RequestDisable(m) EXCEPT !.watchdog = TRUE]
    ELSE m

esp_mesh_conn_timeout_wdtfunc ==
  /\ Running
  /\ esp_mesh_conn_timeout_wdt = "armed"
  /\ mesh' = WatchdogVerdict(mesh)
  /\ Observe([NoOp EXCEPT !.op = "watchdog", !.dev = Device,
                          !.req = IF WatchdogVerdict([mesh EXCEPT !.disable = FALSE]).disable
                                    THEN "disable" ELSE "none"])
  /\ UNCHANGED <<node_list, topology_timer, esp_mesh_conn, is_root, sub_dev_mac,
                 now, ticks, status, esp_mesh_enable_attempt_count,
                 led_blink_timer, esp_mesh_conn_timeout_wdt, mode, engine>>

\* esp_mesh_disable_cb as it would be if it left the watchdog timer armed
DisableKeepsWatchdog ==
  /\ Running
  /\ mesh.disable
  /\ topology_timer' = "null"
  /\ armed_timers' = IF topology_timer = "null" THEN armed_timers ELSE armed_timers - 1
  /\ topology_stopped' = TRUE
  /\ node_list' = mesh_device_list_release(node_list)
  /\ esp_mesh_conn' = FALSE
  /\ led_blink_timer' = "null"
  /\ esp_mesh_enable_attempt_count' = 1
  /\ mesh' = [mesh EXCEPT !.disable = FALSE, !.recv = FALSE, !.retries = 0,
                          !.status = "MESH_DISABLE", !.watchdog = FALSE]
  /\ Observe([NoOp EXCEPT !.op = "disable_cb", !.dev = Device, !.pre = node_list,
                          !.timer = topology_timer])
  /\ UNCHANGED <<is_root, sub_dev_mac, now, ticks, status, mode,
                 esp_mesh_conn_timeout_wdt>>

\* esp_mesh_disable_cb, called by the library after espconn_mesh_disable:
\* mesh_topology_disable, then the socket and both timers are freed and set
\* to NULL and the attempt counter is reset
esp_mesh_disable_cb ==
  /\ Running
  /\ mesh.disable
  /\ topology_timer' = "null"
  /\ armed_timers' = IF topology_timer = "null" THEN armed_timers ELSE armed_timers - 1
  /\ topology_stopped' = TRUE
  /\ node_list' = mesh_device_list_release(node_list)
  /\ esp_mesh_conn' = FALSE
  /\ led_blink_timer' = "null"
  /\ esp_mesh_conn_timeout_wdt' = "null"
  /\ esp_mesh_enable_attempt_count' = 1
  /\ mesh' = [mesh EXCEPT !.disable = FALSE, !.recv = FALSE, !.retries = 0,
                          !.status = "MESH_DISABLE", !.watchdog = FALSE]
  /\ Observe([NoOp EXCEPT !.op = "disable_cb", !.dev = Device, !.pre = node_list,
                          !.timer = topology_timer])
  /\ UNCHANGED <<is_root, sub_dev_mac, now, ticks, status, mode>>

\* The connection to the router is lost, or found again: what
\* espconn_mesh_get_status reports changes
MeshStatusChange ==
  /\ Running
  /\ mesh.status # "MESH_DISABLE"
  /\ mesh' = [mesh EXCEPT !.status = IF @ = "MESH_WIFI_CONN"
                                       THEN "MESH_ONLINE_AVAIL"
                                       ELSE "MESH_WIFI_CONN"]
  /\ UNCHANGED <<node_list, topology_timer, esp_mesh_conn, is_root, sub_dev_mac,
                 now, ticks, status, last, esp_mesh_enable_attempt_count,
                 led_blink_timer, esp_mesh_conn_timeout_wdt, mode, engine>>

\* The messages of the life cycle: topology responses that name one address
ResponseCalls ==
  {c \in PacketCalls :
     c.a = NoCall /\ c.h.proto = M_PROTO_NONE /\ Len(c.h.opts) = 1
       /\ SumLen(c.h.opts) = 1}

\* esp_mesh_recv_cb for such a message; its handling is not recorded
Receive ==
  /\ Running
  /\ esp_mesh_conn
  /\ mesh.recv
  /\ \E c \in ResponseCalls : mesh_packet_parser(supported_protocols, c.a, c.h)
  /\ last' = NoOp

----------------------------------------------------------------------------
(* The button-driven variant of the life cycle (mesh_device.c:520-1047), in *)
(* which the operation mode is chosen by the pushbutton.  Its functions     *)
(* have the names of those of esp_mesh.c and are prefixed Button here.      *)

\* The variant after user_init: gpio_pins_init has attached the button
\* interrupt, mesh_init has not been called
ButtonMesh == [NoMesh EXCEPT !.boot = FALSE, !.button = TRUE]

\* button_released_interrupt_handler: the mode is set from the time the
\* button was held (long: above OPERATION_MODE_THRESHOLD), the interrupt
\* disabled and mesh_init called.  mesh_init allocates the station
\* configuration (router1: espconn_mesh_set_router accepts it) and the two
\* timers, then root_init starts ESP-TOUCH, or sub_init sets the router
\* (router2), arms the watchdog and enables the mesh; where the
\* configuration fails it returns at once, on any later failure it disables
\* the mesh
button_released_interrupt_handler ==
  /\ Running
  /\ mesh.button
  /\ \E long \in BOOLEAN, F \in SUBSET (1..4), router1 \in BOOLEAN,
        router2 \in BOOLEAN :
       LET newMode == IF long THEN "ROOT_NODE" ELSE "SUB_NODE"
           confOk == AllocOk(F, 1) /\ router1
           kl == IF confOk /\ led_blink_timer = "null" THEN 2 ELSE 1
           hasLed == confOk /\ (led_blink_timer # "null" \/ AllocOk(F, kl))
           kw == IF confOk /\ esp_mesh_conn_timeout_wdt = "null" THEN kl + 1 ELSE kl
           wdtOk == confOk /\ (esp_mesh_conn_timeout_wdt # "null" \/ AllocOk(F, kw))
           ke == IF wdtOk /\ long THEN kw + 1 ELSE kw
           rootOk == wdtOk /\ long /\ AllocOk(F, ke)
           subOk == wdtOk /\ ~long /\ router2
           m1 == [mesh EXCEPT !.button = FALSE]
       IN /\ F \subseteq 1..ke
          /\ ~AllocOk(F, 1) => router1
          /\ ~(wdtOk /\ ~long) => router2
          /\ mode' = newMode
          /\ led_blink_timer' =
               IF ~hasLed THEN led_blink_timer
               ELSE IF rootOk \/ subOk \/ led_blink_timer = "armed" THEN "armed"
               ELSE "idle"
          /\ esp_mesh_conn_timeout_wdt' =
               IF ~wdtOk THEN esp_mesh_conn_timeout_wdt
               ELSE IF subOk THEN "armed"
               ELSE IF esp_mesh_conn_timeout_wdt = "null" THEN "idle"
               ELSE esp_mesh_conn_timeout_wdt
          /\ mesh' = CASE ~confOk -> m1
                       [] rootOk -> [m1 EXCEPT !.esptouch = TRUE]
                       [] subOk -> RequestEnable(m1)
                       [] OTHER -> RequestDisable(m1)
          /\ Observe([NoOp EXCEPT !.op = "button_released", !.dev = Device,
                                  !.ret = (rootOk \/ subOk),
                                  !.allocFail = AnyFail(F, ke),
                                  !.req = CASE ~confOk \/ rootOk -> "none"
                                            [] subOk -> "enable"
                                            [] OTHER -> "disable"])
  /\ UNCHANGED <<node_list, topology_timer, esp_mesh_conn, is_root, sub_dev_mac,
                 now, ticks, status, esp_mesh_enable_attempt_count, engine>>

\* esp_mesh_rebuild_fail_cb of the variant: the mesh is enabled again
ButtonRebuildFailCb ==
  /\ Running
  /\ mesh.status # "MESH_DISABLE"
  /\ mesh' = RequestEnable(mesh)
  /\ Observe([NoOp EXCEPT !.op = "rebuild_fail", !.dev = Device,
                          !.result = "MESH_OP_FAILURE", !.req = "enable"])
  /\ UNCHANGED <<node_list, topology_timer, esp_mesh_conn, is_root, sub_dev_mac,
                 now, ticks, status, esp_mesh_enable_attempt_count,
                 led_blink_timer, esp_mesh_conn_timeout_wdt, mode, engine>>

\* esp_mesh_enable_cb of the variant: the same retry counting on a failure;
\* on a success the counter is reset, the blink timer disarmed, the socket
\* allocated where missing and the receive callback registered (regist; it
\* is refused for a socket whose allocation failed), or else the mesh
\* disabled.  mesh_topology_init is not called
ButtonEnableCb ==
  /\ Running
  /\ mesh.enable
  /\ \E result \in {"MESH_OP_FAILURE", "MESH_ONLINE_SUC", "MESH_LOCAL_SUC"} :
       IF result = "MESH_OP_FAILURE"
         THEN EnableFailed
         ELSE \E F \in SUBSET (1..1), ledUB \in {"none", "fault"}, regist \in BOOLEAN :
                LET ledFault == led_blink_timer = "null" /\ ledUB = "fault"
                    connOk == esp_mesh_conn \/ AllocOk(F, 1)
                    m1 == [mesh EXCEPT !.enable = FALSE, !.retries = 0,
                                       !.status = IF result = "MESH_LOCAL_SUC"
                                                    THEN "MESH_LOCAL_AVAIL"
                                                    ELSE "MESH_ONLINE_AVAIL"]
                IN /\ led_blink_timer # "null" => ledUB = "none"
                   /\ ledFault => (F = {} /\ regist)
                   /\ esp_mesh_conn => F = {}
                   /\ ~connOk => ~regist
                   /\ esp_mesh_enable_attempt_count' = 1
                   /\ led_blink_timer' =
                        IF led_blink_timer = "null" THEN "null" ELSE "idle"
                   /\ status' = IF ledFault THEN "fault" ELSE status
                   /\ esp_mesh_conn' = IF ledFault THEN esp_mesh_conn ELSE connOk
                   /\ mesh' = CASE ledFault -> m1
                                [] regist -> [m1 EXCEPT !.recv = TRUE]
                                [] OTHER -> RequestDisable(m1)
                   /\ Observe([NoOp EXCEPT !.op = "enable_cb", !.dev = Device,
                                           !.result = result,
                                           !.allocFail = (F # {}),
                                           !.req = IF ledFault \/ regist
                                                     THEN "none" ELSE "disable"])
                   /\ UNCHANGED <<node_list, topology_timer, engine>>
  /\ UNCHANGED <<is_root, sub_dev_mac, now, ticks, esp_mesh_conn_timeout_wdt, mode>>

\* esp_mesh_disable_cb of the variant: as in esp_mesh.c, and the button
\* interrupt is attached again.  Its statement "mode == DISABLED;" compares
\* and assigns nothing
ButtonDisableCb ==
  /\ Running
  /\ mesh.disable
  /\ topology_timer' = "null"
  /\ armed_timers' = IF topology_timer = "null" THEN armed_timers ELSE armed_timers - 1
  /\ topology_stopped' = TRUE
  /\ node_list' = mesh_device_list_release(node_list)
  /\ esp_mesh_conn' = FALSE
  /\ led_blink_timer' = "null"
  /\ esp_mesh_conn_timeout_wdt' = "null"
  /\ mode' = mode
  /\ esp_mesh_enable_attempt_count' = 1
  /\ mesh' = [mesh EXCEPT !.disable = FALSE, !.recv = FALSE, !.retries = 0,
                          !.status = "MESH_DISABLE", !.button = TRUE,
                          !.watchdog = FALSE]
  /\ Observe([NoOp EXCEPT !.op = "disable_cb", !.dev = Device, !.pre = node_list,
                          !.timer = topology_timer])
  /\ UNCHANGED <<is_root, sub_dev_mac, now, ticks, status>>

----------------------------------------------------------------------------
(* Specifications *)

\* The callbacks as the device runs them
Next ==
  \/ Tick
  \/ MeshRoleChange
  \/ esp_mesh_recv_cb
  \/ TopologyTestRoot
  \/ TopologyTestOther
  \/ mesh_topology_init
  \/ mesh_topology_disable

Spec == Init /\ [][Next]_vars

\* Any sequence of calls of the registry's functions and eviction steps
NextRegistry ==
  \/ Tick
  \/ ListInit
  \/ ListRelease
  \/ RootSet
  \/ UpdateTimestamp
  \/ Add
  \/ Del
  \/ Evict

SpecRegistry == Init /\ [][NextRegistry]_vars

\* Calls of the packet parser, with the program's and with other binding tables
NextParser ==
  \/ Tick
  \/ ParserCall

SpecParser == Init /\ [][NextParser]_vars

\* mesh_topology_test on its own, in either role, on the registries that
\* received packets build
NextTopology ==
  \/ Tick
  \/ MeshRoleChange
  \/ esp_mesh_recv_cb
  \/ TopologyTestCall

SpecTopology == Init /\ [][NextTopology]_vars

\* Calls of the registry's functions with one address each, out of four
\* addresses: registries with up to three sub-nodes
NextRegistryWide ==
  \/ Tick
  \/ RootSetOne
  \/ UpdateTimestampOne
  \/ AddOne
  \/ DelOne

SpecRegistryWide == Init /\ [][NextRegistryWide]_vars

\* The device at power-up, with the static initialisers of esp_mesh.c and
\* mesh_none.c: no socket, no timers, no registry
InitDevice ==
  /\ node_list = NullList
  /\ topology_timer = "null"
  /\ esp_mesh_conn = FALSE
  /\ is_root = FALSE
  /\ sub_dev_mac = "null"
  /\ now = StartTime
  /\ ticks = 0
  /\ status = "run"
  /\ last = NoOp
  /\ esp_mesh_enable_attempt_count = 1
  /\ led_blink_timer = "null"
  /\ esp_mesh_conn_timeout_wdt = "null"
  /\ mode = "DISABLED"
  /\ mesh = NoMesh
  /\ armed_timers = 0
  /\ topology_stopped = FALSE

\* The life cycle of the node: the callbacks of esp_mesh.c in any order the
\* library and the timers can deliver them
NextDevice ==
  \/ mesh_init
  \/ esptouch_over_timerfunc
  \/ esp_mesh_enable_cb
  \/ esp_mesh_rebuild_fail_cb
  \/ esp_mesh_conn_timeout_wdtfunc
  \/ esp_mesh_disable_cb
  \/ MeshStatusChange
  \/ MeshRoleChange
  \/ Receive

SpecDevice == InitDevice /\ [][NextDevice]_vars

\* The life cycle with the timers and the library doing their part: the armed
\* watchdog timer, which repeats (os_timer_arm with repeat, esp_mesh.c:328),
\* keeps firing, and the library calls esp_mesh_disable_cb once
\* espconn_mesh_disable has been called.  No step is recorded
WatchdogFires == esp_mesh_conn_timeout_wdtfunc /\ last' = NoOp

DisableDelivered == esp_mesh_disable_cb /\ last' = NoOp

NextWatchdog ==
  \/ mesh_init /\ last' = NoOp
  \/ esptouch_over_timerfunc /\ last' = NoOp
  \/ esp_mesh_enable_cb /\ last' = NoOp
  \/ esp_mesh_rebuild_fail_cb /\ last' = NoOp
  \/ WatchdogFires
  \/ DisableDelivered
  \/ MeshStatusChange
  \/ MeshRoleChange
  \/ Receive

SpecWatchdog ==
  /\ InitDevice
  /\ [][NextWatchdog]_vars
  /\ WF_vars(WatchdogFires)
  /\ WF_vars(DisableDelivered)

\* The button-driven variant from power-up
InitButton ==
  /\ node_list = NullList
  /\ topology_timer = "null"
  /\ esp_mesh_conn = FALSE
  /\ is_root = FALSE
  /\ sub_dev_mac = "null"
  /\ now = StartTime
  /\ ticks = 0
  /\ status = "run"
  /\ last = NoOp
  /\ esp_mesh_enable_attempt_count = 1
  /\ led_blink_timer = "null"
  /\ esp_mesh_conn_timeout_wdt = "null"
  /\ mode = "DISABLED"
  /\ mesh = ButtonMesh
  /\ armed_timers = 0
  /\ topology_stopped = FALSE

NextButton ==
  \/ button_released_interrupt_handler
  \/ esptouch_over_timerfunc
  \/ ButtonEnableCb
  \/ ButtonRebuildFailCb
  \/ esp_mesh_conn_timeout_wdtfunc
  \/ ButtonDisableCb
  \/ MeshStatusChange
  \/ Receive

SpecButton == InitButton /\ [][NextButton]_vars

----------------------------------------------------------------------------
(* Properties *)

Range(q) == {q[i] : i \in DOMAIN q}

Count(a, q) == Cardinality({i \in DOMAIN q : q[i] = a})

\* The addresses the registry knows: root and sub-nodes
Known(nl) ==
  IF HasRoot(nl) THEN {nl.root.mac} \cup Range(MemberMacs(nl)) ELSE {}

\* The addresses a response lists in its options
Listed(opts) == UNION {Range(opts[i]) : i \in DOMAIN opts}

\* The timestamp the registry holds for a sub-node address
TsOf(nl, a) == Members(nl)[FirstIdx(nl, a)].ts

\* An observed callback whose eviction loop was entered
Evicted ==
  /\ last.op \in {"response", "root_cycle", "evict"}
  /\ last.op = "response" => last.opts # <<>>
  /\ last.mid.alloc
  /\ status # "fault"

\* C1: the root address is never also a sub-node and no address occurs twice
\* among the sub-nodes, after any sequence of root_set, add,
\* update_timestamp, del and eviction steps.
C1_Uniqueness ==
  LET m == MemberMacs(node_list)
  IN /\ HasRoot(node_list) => node_list.root.mac \notin Range(m)
     /\ \A i, j \in DOMAIN m : i # j => m[i] # m[j]

\* C1 witness: an add of an array with a repeated address and with the root
\* address has left two sub-nodes
C1_Witness ==
  /\ last.op = "add" /\ last.ret
  /\ Len(last.nodes) = 3
  /\ last.nodes[1] = last.nodes[3]
  /\ last.pre.root.mac = last.nodes[2]
  /\ Len(Members(last.pre)) = 1
  /\ Len(Members(node_list)) = 2

\* C2: whenever no root is set (entries_count is 0, or the registry does not
\* exist) there is no member storage and no sub-node.
C2_NoRootNoMembers ==
  ~HasRoot(node_list) =>
    /\ node_list.list = <<>>
    /\ Members(node_list) = <<>>
    /\ mesh_device_list_get(node_list).count = 0

\* C2 witness: the stop of the topology tests has released a registry that
\* held sub-nodes
C2_Witness ==
  /\ last.op = "topology_disable"
  /\ Len(Members(last.pre)) = 2
  /\ ~HasRoot(node_list)

\* C3: root_set(S) while a root R # S is set returns true and leaves root S
\* and no sub-nodes, also when S was a sub-node.
C3_RootSwitch ==
  (/\ last.op = "root_set" /\ ~last.null
   /\ HasRoot(last.pre)
   /\ last.pre.root.mac # last.nodes[1])
    => /\ last.ret /\ status = "run"
       /\ HasRoot(node_list)
       /\ node_list.root.mac = last.nodes[1]
       /\ node_list.entries_count = 1
       /\ Members(node_list) = <<>>
       /\ mesh_device_list_get(node_list).count = 0

\* C3 witness: the new root was one of two sub-nodes of the old root
C3_Witness ==
  /\ last.op = "root_set" /\ ~last.null /\ last.ret
  /\ HasRoot(last.pre)
  /\ Len(Members(last.pre)) = 2
  /\ last.nodes[1] \in Range(MemberMacs(last.pre))
  /\ node_list.root.mac = last.nodes[1]

\* C4 (as claimed, for a cycle in which no allocation fails): the eviction
\* step leaves exactly the sub-nodes whose age is at most the threshold, with
\* their timestamps and in their order, and returns.
C4_EvictionExact ==
  (Evicted /\ ~last.allocFail) =>
    /\ status = "run"
    /\ Members(node_list) = Fresh(Members(last.mid), now)

\* C5: no eviction step removes or changes the root, however old its
\* timestamp is and however many sub-nodes are evicted.
C5_RootImmune ==
  Evicted =>
    /\ HasRoot(node_list) = HasRoot(last.mid)
    /\ node_list.root = last.mid.root

\* C5 witness: a cycle has evicted all sub-nodes while the root's own
\* timestamp was older than the threshold
C5_Witness ==
  /\ last.op = "root_cycle"
  /\ HasRoot(last.mid)
  /\ Stale(now, last.mid.root.ts)
  /\ Len(Members(last.mid)) = 2
  /\ Members(node_list) = <<>>
  /\ HasRoot(node_list)
  /\ node_list.root = last.mid.root

\* C6 (as claimed): del of the root address leaves no root and no sub-nodes.
C6_RemoveRootClears ==
  (/\ last.op = "del" /\ ~last.null
   /\ HasRoot(last.pre)
   /\ last.nodes = <<last.pre.root.mac>>)
    => /\ status = "run"
       /\ ~mesh_device_root_get(node_list).ret
       /\ mesh_device_list_get(node_list).count = 0

\* C7 (as claimed): del returns for every input, and del of addresses that
\* are neither the root nor a sub-node leaves the registry unchanged.
C7_DelTerminates ==
  last.op = "del" =>
    /\ status = "run"
    /\ Range(last.nodes) \cap Known(last.pre) = {} => node_list = last.pre

\* C8: an add that succeeds leaves every address of its input that was
\* absent before as exactly one sub-node, however often the input repeats
\* it; an add of addresses that are all present returns true and leaves the
\* registry, timestamps included, as it was.
C8_IdempotentAdd ==
  (last.op = "add" /\ ~last.null /\ HasRoot(last.pre)) =>
    /\ \A a \in Range(last.nodes) : Count(a, MemberMacs(node_list)) <= 1
    /\ last.ret =>
         \A a \in Range(last.nodes) \ Known(last.pre) :
           Count(a, MemberMacs(node_list)) = 1
    /\ Range(last.nodes) \subseteq Known(last.pre) =>
         last.ret /\ node_list = last.pre

\* C8 witness: add([A,A,A]) with A absent has left A as the only sub-node
C8_Witness ==
  /\ last.op = "add" /\ last.ret
  /\ HasRoot(last.pre)
  /\ Members(last.pre) = <<>>
  /\ Len(last.nodes) = 3
  /\ last.nodes[1] = last.nodes[2] /\ last.nodes[2] = last.nodes[3]
  /\ MemberMacs(node_list) = <<last.nodes[1]>>

\* C9: add without a root reports failure and leaves the registry unchanged.
C9_AddNoRoot ==
  (last.op = "add" /\ ~HasRoot(last.pre)) =>
    /\ ~last.ret
    /\ node_list = last.pre
    /\ ~HasRoot(node_list)
    /\ Members(node_list) = <<>>

\* C9 witness: an add of two addresses to an initialised registry without root
C9_Witness ==
  /\ last.op = "add" /\ ~last.null
  /\ Len(last.nodes) = 2
  /\ last.pre.alloc /\ last.pre.entries_count = 0
  /\ ~last.ret

\* C10 (as claimed, for a handling in which no allocation fails): after a
\* response with source R and options, the root is R with the timestamp of
\* the handling, every listed address other than R is a sub-node exactly once
\* with that timestamp, and if the root before was not R the sub-nodes are
\* exactly the listed addresses, in listed order.
C10_ResponseResult ==
  (last.op = "response" /\ last.opts # <<>> /\ ~last.allocFail) =>
    /\ status = "run"
    /\ HasRoot(node_list)
    /\ node_list.root.mac = last.src
    /\ node_list.root.ts = now
    /\ \A a \in Listed(last.opts) \ {last.src} :
         /\ Count(a, MemberMacs(node_list)) = 1
         /\ TsOf(node_list, a) = now
    /\ (~HasRoot(last.pre) \/ last.pre.root.mac # last.src) =>
         /\ Range(MemberMacs(node_list)) = Listed(last.opts) \ {last.src}
         /\ \A i, j \in DOMAIN MemberMacs(node_list) :
              i < j => \E p, q \in 1..Len(last.opts) :
                         \E x \in DOMAIN last.opts[p], y \in DOMAIN last.opts[q] :
                           /\ last.opts[p][x] = MemberMacs(node_list)[i]
                           /\ last.opts[q][y] = MemberMacs(node_list)[j]
                           /\ (p < q \/ (p = q /\ x < y))


\* C11 (as claimed, for a cycle in which no allocation fails): after a
\* root-role cycle for which the transport reports U followed by the sub-nodes
\* L, the root is U, every address of L other than U is a sub-node, U and
\* these sub-nodes carry the timestamp of the cycle, and the transport's
\* address buffer has been released when the cycle returns.
C11_RootCycleResult ==
  (last.op = "root_cycle" /\ Len(last.nodes) >= 1 /\ ~last.allocFail) =>
    /\ status = "run"
    /\ sub_dev_mac = "null"
    /\ HasRoot(node_list)
    /\ node_list.root.mac = last.nodes[1]
    /\ node_list.root.ts = now
    /\ \A a \in Range(Tail(last.nodes)) \ {last.nodes[1]} :
         /\ Count(a, MemberMacs(node_list)) = 1
         /\ TsOf(node_list, a) = now

\* The addresses the observed cycle was told about: the sub-nodes the
\* transport reported, or the addresses the response's options list
Reported ==
  IF last.op = "root_cycle"
    THEN (IF last.nodes = <<>> THEN {} ELSE Range(Tail(last.nodes)))
    ELSE Listed(last.opts)

\* C12 (as claimed, for a cycle in which no allocation fails): when the root
\* stays the same, a sub-node that the cycle's report does not mention stays
\* registered, with its timestamp, if the eviction step sees its age at or
\* below the threshold, and is removed if the step sees its age above it.
C12_TimeDriven ==
  (/\ Evicted /\ last.op # "evict" /\ ~last.allocFail
   /\ HasRoot(last.pre) /\ last.mid.root.mac = last.pre.root.mac) =>
    \A i \in DOMAIN Members(last.pre) :
      LET m == Members(last.pre)[i]
      IN m.mac \notin Reported =>
           IF Stale(now, m.ts)
             THEN m.mac \notin Range(MemberMacs(node_list))
             ELSE /\ Count(m.mac, MemberMacs(node_list)) = 1
                  /\ TsOf(node_list, m.mac) = m.ts

\* C13 (as claimed): in a root-role cycle or the handling of a response, every
\* reported address that is a registered sub-node when the eviction loop
\* starts carries the timestamp of this cycle, and is still registered when
\* the cycle is over, whether or not an allocation inside mesh_device_add has
\* failed.
C13_NoImmediateEviction ==
  (Evicted /\ last.op # "evict") =>
    \A a \in Reported \cap Range(MemberMacs(last.mid)) :
      /\ TsOf(last.mid, a) = now
      /\ a \in Range(MemberMacs(node_list))

\* C14: right after mesh_topology_disable the timer is disarmed and released,
\* the registry reports no root and an empty list; a discovery cycle only ever
\* runs on an armed timer, so none fires between a stop and the next start;
\* and a mesh_topology_init that gets its timer leaves the timer armed.
C14_StopStart ==
  /\ last.op = "topology_disable" =>
       /\ topology_timer = "null"
       /\ ~mesh_device_root_get(node_list).ret
       /\ mesh_device_list_get(node_list).count = 0
       /\ Members(node_list) = <<>>
  /\ last.op \in {"root_cycle", "topology_test"} => last.timer = "armed"
  /\ topology_timer = "null" => ~ENABLED TopologyTestRoot /\ ~ENABLED TopologyTestOther
  /\ (last.op = "topology_init" /\ last.ret) => topology_timer = "armed"

\* C14 witness: the engine is stopped while its timer is armed and the
\* registry holds a root and sub-nodes
C14_Witness ==
  /\ last.op = "topology_disable"
  /\ last.timer = "armed"
  /\ HasRoot(last.pre)
  /\ Len(Members(last.pre)) >= 1
  /\ topology_timer = "null"

\* C15 (as claimed): right after every mesh_topology_init that starts the
\* engine the registry has no root and no sub-nodes, also when the engine was
\* already running or a response had been handled before.
C15_EmptyAfterStart ==
  (last.op = "topology_init" /\ last.ret) =>
    /\ ~HasRoot(node_list)
    /\ Members(node_list) = <<>>
    /\ mesh_device_list_get(node_list).count = 0

\* C16 (as claimed): in the eviction loops no entry is read through the view
\* mesh_device_list_get handed out after a mesh_device_del of the loop has
\* freed or replaced the storage the view points to.
C16_SnapshotValid ==
  Evicted => ~last.uafRead

\* The packet the observed parser call was given has valid arguments
CallValid == last.call.arg /\ ~last.call.null /\ last.call.len > 0

\* The observed parser call's table has no binding for the packet's protocol
NotBound == \A i \in DOMAIN last.table : last.table[i].protocol # last.proto

\* The first binding for the packet's protocol has no handler
NullBound ==
  \E i \in DOMAIN last.table :
    /\ last.table[i].protocol = last.proto
    /\ last.table[i].handler = "null"
    /\ \A j \in 1..(i - 1) : last.table[j].protocol # last.proto

\* C17: mesh_packet_parser, called with valid arguments for a packet whose
\* protocol cannot be resolved, is not in the binding table, or is bound to a
\* null handler, invokes no handler, leaves the registry as it was and
\* returns.
C17_DispatcherDrop ==
  (/\ last.op \in {"parser_drop", "response"}
   /\ CallValid
   /\ last.proto = Unresolved \/ NotBound \/ NullBound) =>
    /\ last.op = "parser_drop"
    /\ last.binding # "mesh_parser_protocol_none"
    /\ node_list = last.pre
    /\ status = "run"

\* C17 witness: a packet of a protocol bound to a null handler was dropped
\* while the registry held a root and a sub-node
C17_Witness ==
  /\ last.op = "parser_drop"
  /\ CallValid
  /\ NullBound
  /\ last.lookup
  /\ Len(Members(node_list)) >= 1

\* C18: mesh_packet_parser called with a null arg, a null packet or length 0
\* looks up no protocol, invokes no handler and leaves the registry as it
\* was.
C18_InvalidArgs ==
  (last.op \in {"parser_drop", "response"} /\ ~CallValid) =>
    /\ last.op = "parser_drop"
    /\ ~last.lookup
    /\ last.binding = "none"
    /\ node_list = last.pre
    /\ status = "run"

\* C18 witness: a call with a packet of length 0 was dropped while the
\* registry held a root and a sub-node
C18_Witness ==
  /\ last.op = "parser_drop"
  /\ last.call.arg /\ ~last.call.null /\ last.call.len = 0
  /\ ~last.lookup
  /\ Len(Members(node_list)) >= 1

\* The observed call delivered, with valid arguments, a message of the
\* discovery protocol that carries no topology-response option
NoOptionMessage ==
  /\ last.op \in {"parser_drop", "response"}
  /\ CallValid
  /\ last.proto = M_PROTO_NONE
  /\ last.opts = <<>>

\* C19 (as claimed): a message of the discovery protocol without the
\* topology-response option is rejected by the parser: the response handler
\* is not invoked for it and the registry is unchanged.
C19_RejectedAtDispatcher ==
  NoOptionMessage =>
    /\ last.op = "parser_drop"
    /\ last.binding # "mesh_parser_protocol_none"
    /\ node_list = last.pre

\* C19 (amended): a message of the discovery protocol without the
\* topology-response option is passed to the response handler like every
\* other message of that protocol; the handler finds no such option and
\* returns, and root, sub-nodes and timestamps are unchanged.
C19_HandlerIgnoresNoOption ==
  NoOptionMessage =>
    /\ last.op = "response"
    /\ last.binding = "mesh_parser_protocol_none"
    /\ node_list = last.pre
    /\ status = "run"

\* C19 witness: a message without the option was received while the registry
\* held a root and a sub-node
C19_Witness ==
  /\ NoOptionMessage
  /\ last.op = "response"
  /\ Len(Members(last.pre)) >= 1
  /\ node_list = last.pre

\* C20 (as claimed): while the device is the root of the mesh, a discovery
\* response delivered to the response handler changes neither the registry's
\* root nor its sub-nodes.
C20_RootIgnoresResponse ==
  (last.op = "response" /\ is_root) =>
    /\ HasRoot(node_list) = HasRoot(last.pre)
    /\ HasRoot(last.pre) => node_list.root.mac = last.pre.root.mac
    /\ MemberMacs(node_list) = MemberMacs(last.pre)

\* The calls of the transport function fn that the observed cycle made
CallsOf(fn) == {i \in DOMAIN last.out.calls : last.out.calls[i].fn = fn}

\* The observed timer fire ran the non-root request cycle
RequestCycleRan ==
  /\ last.op = "topology_test"
  /\ last.env.conn
  /\ last.env.mesh_status \in AvailStatuses
  /\ ~last.env.root
  /\ last.env.op_mode \in RequestModes

\* C21: a timer fire in the non-root role hands at most one packet to
\* espconn_mesh_sent; that packet is a topology request of M_PROTO_NONE (one
\* M_O_TOPO_REQ option) addressed to the broadcast address; and the
\* registry is as before, whether the send succeeds or not.
C21_RequestOnly ==
  (last.op = "topology_test" /\ ~last.env.root) =>
    /\ Len(last.out.sent) <= 1
    /\ Cardinality(CallsOf("espconn_mesh_sent")) = Len(last.out.sent)
    /\ \A i \in DOMAIN last.out.sent :
         /\ last.out.sent[i].dst = ZeroMac
         /\ last.out.sent[i].proto = M_PROTO_NONE
         /\ last.out.sent[i].options = <<"M_O_TOPO_REQ">>
    /\ node_list = last.pre
    /\ status = "run"

\* C21 witness: a non-root cycle has sent its request while the registry held
\* a root and a sub-node
C21_Witness ==
  /\ RequestCycleRan
  /\ last.ret
  /\ Len(last.out.sent) = 1
  /\ Len(Members(node_list)) >= 1

\* Whether the observed cycle's call of fn was made and succeeded
Succeeded(fn) == \E i \in CallsOf(fn) : last.out.calls[i].ok

\* C22: when a non-root cycle returns, the packet and the option are each
\* freed exactly once if their creation succeeded and not at all otherwise,
\* on the success path and when the option's creation, its adding or the send
\* fails.
C22_ReleasedOnce ==
  RequestCycleRan =>
    /\ last.out.header.made = Succeeded("espconn_mesh_create_packet")
    /\ last.out.option.made = Succeeded("espconn_mesh_create_option")
    /\ last.out.header.freed = (IF last.out.header.made THEN 1 ELSE 0)
    /\ last.out.option.freed = (IF last.out.option.made THEN 1 ELSE 0)

\* C22 witness: the send of a cycle failed after the packet and the option
\* had been created, and both were freed
C22_Witness ==
  /\ RequestCycleRan
  /\ ~last.ret
  /\ CallsOf("espconn_mesh_sent") # {}
  /\ ~Succeeded("espconn_mesh_sent")
  /\ last.out.header = [made |-> TRUE, freed |-> 1]
  /\ last.out.option = [made |-> TRUE, freed |-> 1]

\* The observed timer fire found no socket, a mesh status that is not one of
\* the available ones, or, in the non-root role, a WiFi mode that is neither
\* station nor access point
FireGated ==
  /\ last.op = "topology_test"
  /\ \/ ~last.env.conn
     \/ last.env.mesh_status \notin AvailStatuses
     \/ ~last.env.root /\ last.env.op_mode \notin RequestModes

\* C23: a timer fire that finds no socket, an unavailable mesh or, in the
\* non-root role, a wrong WiFi mode makes no transport call, sends nothing,
\* creates nothing and leaves the registry as it was.
C23_GatedFire ==
  FireGated =>
    /\ last.out = NoOut
    /\ ~last.ret
    /\ node_list = last.pre
    /\ status = "run"

\* C23 witness: mesh_topology_test ran without a socket while the registry
\* held a root and a sub-node
C23_Witness ==
  /\ FireGated
  /\ ~last.env.conn
  /\ Len(Members(node_list)) >= 1

\* A transport call of the observed timer fire has failed
TransportFailed ==
  /\ last.op = "topology_test"
  /\ \E i \in DOMAIN last.out.calls : ~last.out.calls[i].ok

\* C24: when a transport call of a cycle fails, the cycle makes no further
\* transport call and no send after it, and the timer is still armed when the
\* cycle has returned; and whenever the timer is armed a timer fire can run.
C24_NoImmediateRetry ==
  /\ TransportFailed =>
       /\ \A i \in DOMAIN last.out.calls :
            ~last.out.calls[i].ok => i = Len(last.out.calls)
       /\ \A i, j \in DOMAIN last.out.calls :
            last.out.calls[i].fn = last.out.calls[j].fn => i = j
       /\ Len(last.out.sent) <= 1
       /\ ~Succeeded("espconn_mesh_sent")
       /\ last.timer = "armed"
       /\ topology_timer = "armed"
  /\ (Running /\ topology_timer = "armed") => ENABLED TopologyTestOther

\* C24 witness: the send of a cycle failed while the timer was armed, and the
\* timer is still armed
C24_Witness ==
  /\ TransportFailed
  /\ CallsOf("espconn_mesh_sent") # {}
  /\ topology_timer = "armed"

\* The addresses of an input array that are not in seen, each once, in the
\* order of their first occurrence
RECURSIVE FirstOccurrences(_, _)
FirstOccurrences(nodes, seen) ==
  IF nodes = <<>> THEN <<>>
  ELSE IF Head(nodes) \in seen THEN FirstOccurrences(Tail(nodes), seen)
  ELSE <<Head(nodes)>> \o FirstOccurrences(Tail(nodes), seen \cup {Head(nodes)})

\* C25: mesh_device_add only appends: behind the call the root entry and the
\* sub-nodes that were registered before it are where they were, with their
\* timestamps, and the addresses that follow them are those of the input that
\* were not registered, each once, in the order of the input; a call that
\* returns false leaves the registry as it was
C25_AppendOnly ==
  (last.op = "add" /\ ~last.null) =>
    IF last.ret
      THEN /\ node_list.root = last.pre.root
           /\ SubSeq(Members(node_list), 1, Len(Members(last.pre))) = Members(last.pre)
           /\ MemberMacs(node_list) =
                MemberMacs(last.pre) \o FirstOccurrences(last.nodes, Known(last.pre))
      ELSE node_list = last.pre

\* C25: a call with a registered sub-node extends the list by an address that
\* its input names twice
C25_Witness ==
  /\ last.op = "add" /\ ~last.null /\ last.ret
  /\ Len(Members(last.pre)) = 1
  /\ Len(Members(node_list)) = 2
  /\ Count(MemberMacs(node_list)[2], last.nodes) > 1

\* C26: behind a call of mesh_device_add that returned true, every entry the
\* call appended holds the clock reading of the call as its timestamp
C26_NewEntriesTimestamped ==
  (last.op = "add" /\ ~last.null /\ last.ret) =>
    \A i \in (Len(Members(last.pre)) + 1)..Len(Members(node_list)) :
      Members(node_list)[i].ts = now

\* C27: mesh_device_root_set with the address of the current root returns true
\* and leaves the registry as it was: the root entry with its timestamp, the
\* sub-nodes, their order and their timestamps
C27_RootSetIdempotent ==
  (/\ last.op = "root_set" /\ ~last.null
   /\ HasRoot(last.pre)
   /\ last.pre.root.mac = last.nodes[1])
    => /\ last.ret /\ status = "run"
       /\ node_list = last.pre

\* C27: the call names the current root of a registry with two sub-nodes whose
\* timestamps differ
C27_Witness ==
  /\ last.op = "root_set" /\ ~last.null /\ last.ret
  /\ HasRoot(last.pre)
  /\ last.pre.root.mac = last.nodes[1]
  /\ Len(Members(last.pre)) = 2
  /\ Members(last.pre)[1].ts # Members(last.pre)[2].ts
  /\ last.pre.root.ts # Zero32

\* C28: mesh_device_root_set called while no root is set returns true and
\* leaves the address given as root, with the clock reading of the call as its
\* timestamp, and no sub-nodes
C28_RootAdopted ==
  (/\ last.op = "root_set" /\ ~last.null
   /\ ~HasRoot(last.pre))
    => /\ last.ret /\ status = "run"
       /\ HasRoot(node_list)
       /\ node_list.root.mac = last.nodes[1]
       /\ Members(node_list) = <<>>
       /\ node_list.root.ts = now

\* C29: mesh_device_update_timestamp leaves the root address, the sub-node
\* addresses and their order as they were; the root entry and each sub-node
\* hold the clock reading of the call if the input names them and their old
\* timestamp otherwise; addresses that are not registered have no effect
C29_TouchExact ==
  (last.op = "update_timestamp" /\ ~last.null) =>
    /\ node_list.alloc = last.pre.alloc
    /\ node_list.entries_count = last.pre.entries_count
    /\ node_list.root.mac = last.pre.root.mac
    /\ MemberMacs(node_list) = MemberMacs(last.pre)
    /\ node_list.root.ts =
         IF HasRoot(last.pre) /\ last.pre.root.mac \in Range(last.nodes)
           THEN now ELSE last.pre.root.ts
    /\ \A i \in 1..Len(Members(last.pre)) :
         Members(node_list)[i].ts =
           IF Members(last.pre)[i].mac \in Range(last.nodes)
             THEN now ELSE Members(last.pre)[i].ts

\* C29: the input names an address that is not registered and then a sub-node;
\* the sub-node gets a new timestamp and the root, which the input does not
\* name, keeps its own
C29_Witness ==
  /\ last.op = "update_timestamp" /\ ~last.null /\ last.ret
  /\ Len(last.nodes) = 2
  /\ last.nodes[1] \notin Known(last.pre)
  /\ last.nodes[2] \in Range(MemberMacs(last.pre))
  /\ TsOf(last.pre, last.nodes[2]) # now
  /\ TsOf(node_list, last.nodes[2]) = now
  /\ node_list.root.ts # Zero32
  /\ node_list.root.ts # now

\* A sequence without its i-th element
RemoveAt(q, i) == SubSeq(q, 1, i - 1) \o SubSeq(q, i + 1, Len(q))

\* C30: mesh_device_del called with the address of one registered sub-node
\* returns with that sub-node gone and nothing else changed: the root entry
\* with its timestamp, and the other sub-nodes with their timestamps in the
\* order they had, wherever in the list the deleted sub-node stood
C30_RemoveExact ==
  (/\ last.op = "del" /\ ~last.null /\ Len(last.nodes) = 1
   /\ last.nodes[1] \in Range(MemberMacs(last.pre)))
    => /\ status = "run"
       /\ HasRoot(node_list)
       /\ node_list.root = last.pre.root
       /\ Members(node_list) =
            RemoveAt(Members(last.pre), FirstIdx(last.pre, last.nodes[1]))

\* C30: the first of three sub-nodes is deleted; the two that follow it have
\* different timestamps
C30_Witness ==
  /\ last.op = "del" /\ ~last.null /\ Len(last.nodes) = 1
  /\ Len(Members(last.pre)) = 3
  /\ last.nodes[1] = MemberMacs(last.pre)[1]
  /\ Members(last.pre)[2].ts # Members(last.pre)[3].ts
  /\ Len(Members(node_list)) = 2

\* C36: whatever the sequence of mesh_topology_init and mesh_topology_disable
\* calls, at most one discovery timer is allocated and armed, and it is the
\* one topology_timer points to; a mesh_topology_init that finds a timer
\* allocates none and leaves that one armed
C36_OneTimer ==
  /\ armed_timers <= 1
  /\ armed_timers = (IF topology_timer = "null" THEN 0 ELSE 1)
  /\ (last.op = "topology_init" /\ last.timer # "null")
       => (topology_timer = "armed" /\ armed_timers = 1)

\* C36: mesh_topology_init is called while the timer of an earlier call is
\* armed
C36_Witness ==
  /\ last.op = "topology_init"
  /\ last.timer = "armed"
  /\ last.ret
  /\ topology_timer = "armed"
  /\ armed_timers = 1

\* The clock reading after k advances, and the time in microseconds that has
\* truly passed by then
RECURSIVE Reading(_)
Reading(k) == IF k = 0 THEN StartTime ELSE Add32(Reading(k - 1), Delta(k - 1))

RECURSIVE TrueTime(_)
TrueTime(k) ==
  IF k = 0 THEN 0
  ELSE TrueTime(k - 1) + (Delta(k - 1).hi * Limb + Delta(k - 1).lo)

\* C38 (as claimed): an eviction step removes a sub-node exactly when the
\* time that has truly passed since it was last seen, in whole milliseconds,
\* is above the threshold, also when the 32-bit clock has wrapped around in
\* between.
C38_WrapSafe ==
  Evicted =>
    \A i \in 1..Len(Members(last.mid)) : \A k \in 0..ticks :
      Members(last.mid)[i].ts = Reading(k) =>
        ((Members(last.mid)[i].mac \notin Range(MemberMacs(node_list)))
           <=> ((TrueTime(ticks) - TrueTime(k)) \div UsPerMs
                  > SUB_NODE_TIMEOUT_THRESHOLD))

\* C37 (as claimed): a call of mesh_device_root_set, mesh_device_add,
\* mesh_device_update_timestamp or mesh_device_del that returns false leaves
\* the root, the sub-nodes, their order and their timestamps as they were.
C37_FailureKeepsRegistry ==
  (/\ last.op \in {"root_set", "add", "update_timestamp", "del"}
   /\ status = "run"
   /\ ~last.ret)
    => /\ HasRoot(node_list) = HasRoot(last.pre)
       /\ HasRoot(node_list) => node_list.root = last.pre.root
       /\ Members(node_list) = Members(last.pre)

\* C39 (as claimed): in the button-driven variant the mode is DISABLED when
\* esp_mesh_disable_cb has run, whichever role the button had selected, and
\* it is DISABLED whenever the button interrupt is waiting for the next
\* release.
C39_ModeDisabled ==
  /\ last.op = "disable_cb" => mode = "DISABLED"
  /\ mesh.button => mode = "DISABLED"

\* C32: the enable-attempt counter lies between 1 and
\* MESH_ENABLE_ATTEMPTS_LIMIT in every state, whatever the order in which the
\* enable results, rebuild failures, watchdog fires and disable callbacks
\* arrive
C32_CounterInRange ==
  /\ esp_mesh_enable_attempt_count >= 1
  /\ esp_mesh_enable_attempt_count <= MESH_ENABLE_ATTEMPTS_LIMIT

\* C32: a failure arrives while the counter is at the limit; the counter
\* stays there
C32_Witness ==
  /\ last.op \in {"enable_cb", "rebuild_fail"}
  /\ last.result = "MESH_OP_FAILURE"
  /\ last.dev.count = MESH_ENABLE_ATTEMPTS_LIMIT
  /\ esp_mesh_enable_attempt_count = MESH_ENABLE_ATTEMPTS_LIMIT

\* C31: as long as no enable succeeds and the mesh is not disabled, each
\* failed enable and each failed rebuild makes the node call
\* espconn_mesh_enable again until it has done so
\* MESH_ENABLE_ATTEMPTS_LIMIT - 1 times; the failure after that makes it call
\* espconn_mesh_disable instead, so the retries are bounded.  A successful
\* enable starts the count anew
C31_BoundedRetries ==
  /\ mesh.retries <= MESH_ENABLE_ATTEMPTS_LIMIT - 1
  /\ (last.op \in {"enable_cb", "rebuild_fail"} /\ last.result = "MESH_OP_FAILURE")
       => IF last.dev.mesh.retries < MESH_ENABLE_ATTEMPTS_LIMIT - 1
            THEN /\ last.req = "enable"
                 /\ mesh.enable
                 /\ mesh.retries = last.dev.mesh.retries + 1
                 /\ mesh.disable = last.dev.mesh.disable
            ELSE /\ last.req = "disable"
                 /\ mesh.disable
                 /\ mesh.retries = last.dev.mesh.retries
                 /\ (last.op = "enable_cb" => ~mesh.enable)
  /\ (last.op = "enable_cb" /\ last.result # "MESH_OP_FAILURE")
       => mesh.retries = 0

\* C31: the failure that comes after the last retry: the node asks for the
\* mesh to be disabled
C31_Witness ==
  /\ last.op = "enable_cb"
  /\ last.result = "MESH_OP_FAILURE"
  /\ last.dev.mesh.retries = MESH_ENABLE_ATTEMPTS_LIMIT - 1
  /\ last.req = "disable"
  /\ ~last.dev.mesh.disable
  /\ mesh.disable

\* C33: when esp_mesh_disable_cb has run, from whatever state, the discovery
\* timer is disarmed and released, the registry holds no root and no
\* sub-nodes, the socket, the blink timer and the watchdog timer are released
\* and their references null, and the attempt counter is 1
C33_DisableResets ==
  last.op = "disable_cb" =>
    /\ topology_timer = "null"
    /\ armed_timers = 0
    /\ ~HasRoot(node_list)
    /\ Members(node_list) = <<>>
    /\ ~esp_mesh_conn
    /\ led_blink_timer = "null"
    /\ esp_mesh_conn_timeout_wdt = "null"
    /\ esp_mesh_enable_attempt_count = 1

\* C33: the callback runs on a node that has its socket, both timers armed or
\* idle, a running discovery timer, a root with a sub-node, and a used-up
\* retry budget
C33_Witness ==
  /\ last.op = "disable_cb"
  /\ last.dev.conn
  /\ last.dev.led # "null"
  /\ last.dev.wdt = "armed"
  /\ last.timer = "armed"
  /\ HasRoot(last.pre)
  /\ Members(last.pre) # <<>>
  /\ last.dev.count = MESH_ENABLE_ATTEMPTS_LIMIT
  /\ esp_mesh_enable_attempt_count = 1
  /\ ~HasRoot(node_list)

\* C35 (as claimed): from mesh_topology_disable until the next call of
\* mesh_topology_init the registry holds no root and no sub-nodes; no
\* callback delivered in between, a topology response in particular, sets a
\* root or adds a sub-node.
C35_StoppedStaysEmpty ==
  topology_stopped => (~HasRoot(node_list) /\ Members(node_list) = <<>>)

\* The discovery engine is stopped and the registry holds nothing
Cleared ==
  /\ topology_timer = "null"
  /\ ~HasRoot(node_list)
  /\ Members(node_list) = <<>>

\* C34: a fire of the watchdog timer while the mesh status is MESH_WIFI_CONN
\* requests the mesh disable; and with the timers firing and the library
\* delivering its callbacks, a node whose watchdog is armed and whose
\* connection is lost has, while the connection stays lost and the node
\* runs, eventually its discovery engine stopped and its registry, the root
\* included, cleared
C34_WatchdogClears ==
  /\ [][(WatchdogFires /\ mesh.status = "MESH_WIFI_CONN") => mesh'.disable]_vars
  /\ (esp_mesh_conn_timeout_wdt = "armed" /\ mesh.status = "MESH_WIFI_CONN")
       ~> (Cleared \/ mesh.status # "MESH_WIFI_CONN" \/ status # "run")

\* C34: the watchdog has asked for the disable of a node that has lost its
\* connection while its discovery timer is armed and its registry holds a
\* root and a sub-node
C34_Witness ==
  /\ mesh.watchdog
  /\ mesh.disable
  /\ mesh.status = "MESH_WIFI_CONN"
  /\ esp_mesh_conn_timeout_wdt = "armed"
  /\ topology_timer = "armed"
  /\ HasRoot(node_list)
  /\ Members(node_list) # <<>>

=============================================================================
